---- MODULE Spec2Model ----
(***************************************************************************)
(* A model of the pluslife-notifier session lifecycle: the session         *)
(* registry behind its mutex, the webhook handler receive_data, the test   *)
(* state machine State::update, the sample-to-chart transformation, the    *)
(* detached email tasks and the per-viewer websocket send tasks.           *)
(***************************************************************************)
EXTENDS Integers, Sequences, FiniteSets, TLC

\* ------------------------------------------------------------------------
\* Bounds of the model
\* ------------------------------------------------------------------------
MaxSessions == 2
MaxWebhooks == 2
MaxViewers == 2
MaxCharts == 1

\* The request handlers that may run receive_data at the same time.
Handlers == {1, 2}

SessionIds == 1..MaxSessions
\* The id of a handler that serves no request; no create returns it.
NoId == 0
EmailAddresses == {"a@example.org", "b@example.org"}

\* ------------------------------------------------------------------------
\* Option and Result values
\* ------------------------------------------------------------------------
None == [some |-> FALSE]
Some(v) == [some |-> TRUE, v |-> v]
Ok(v) == [ok |-> TRUE, v |-> v]
Err(e) == [ok |-> FALSE, err |-> e]

\* ------------------------------------------------------------------------
\* messages.rs
\* ------------------------------------------------------------------------
Events == {"TEST_STARTED", "CONTINUE_TEST", "TEST_FINISHED", "NEW_DATA",
           "DEVICE_READY", "ALREADY_TESTING"}

TestSample(ch, value, time) ==
    [starting_channel |-> ch, first_channel_result |-> value, sampling_time |-> time]

TemperatureSample(time, temp) == [time |-> time, temp |-> temp]

TestData(samples, temps) == [samples |-> samples, temperature_samples |-> temps]

TestDataEmpty == TestData(<< >>, << >>)

SubgroupResult(name, result) == [name |-> name, result |-> result]

TestResult(overall, subgroups) ==
    [detection_result |-> overall, subgroup_results |-> subgroups]

Message(event, data, result) ==
    [event |-> event, test |-> [data |-> data, result |-> result]]

\* The payloads the device sends in this model: cumulative snapshots of a
\* run, one of them with a sample on channel 7.
DataOne == TestData(<<TestSample(0, 5, 600)>>, << >>)
DataTwo == TestData(<<TestSample(0, 5, 600), TestSample(1, 9, 1200)>>,
                    <<TemperatureSample(1, 63)>>)
DataBadChannel == TestData(<<TestSample(0, 5, 600), TestSample(7, 3, 1200)>>, << >>)

ResultPositive == TestResult("Positive", <<SubgroupResult("IC", "Negative")>>)

\* The webhooks of the model: every event, the snapshot events with empty,
\* valid and out-of-range data, TEST_FINISHED with and without a result.
Messages ==
    {Message("NEW_DATA", d, None) : d \in {DataOne, DataTwo, DataBadChannel}}
    \cup {Message(e, d, None) : e \in {"TEST_STARTED", "DEVICE_READY"},
                                d \in {TestDataEmpty, DataBadChannel}}
    \cup {Message(e, DataOne, None) : e \in {"ALREADY_TESTING", "CONTINUE_TEST"}}
    \cup {Message("TEST_FINISHED", d, r) : d \in {DataTwo, DataBadChannel},
                                          r \in {None, Some(ResultPositive)}}

\* ------------------------------------------------------------------------
\* graph.rs
\* ------------------------------------------------------------------------
WIDTH == 800
HEIGHT == 600
\* The floor of the value axis.
ValueAxisFloor == 5000
\* Tenths of a second in a minute.
TicksPerMinute == 600
\* i64::MAX and i64::MIN, saturated to the integers TLC represents: every
\* sample value of the model lies strictly between them.
I64_MAX == 2147483647
I64_MIN == -I64_MAX

\* A time in minutes is the fraction num/den; f32::MAX and f32::MIN are the
\* fractions 1/0 and -1/0, above and below every sampling time.
Minutes(num, den) == [num |-> num, den |-> den]
F32_MAX == Minutes(1, 0)
F32_MIN == Minutes(-1, 0)
TimeLess(a, b) == a.num * b.den < b.num * a.den
F32Min(a, b) == IF TimeLess(b, a) THEN b ELSE a
F32Max(a, b) == IF TimeLess(a, b) THEN b ELSE a
IntMin(a, b) == IF b < a THEN b ELSE a
IntMax(a, b) == IF a < b THEN b ELSE a

LineNew(color) == [color |-> color, points |-> << >>]

Palette == <<
    <<166, 206, 227>>, <<32, 120, 180>>, <<178, 223, 138>>, <<52, 160, 45>>,
    <<166, 206, 227>>, <<252, 154, 154>>, <<254, 192, 112>> >>

RECURSIVE ToGraphLoop(_, _, _)
ToGraphLoop(samples, i, acc) ==
    IF i > Len(samples) THEN Ok(acc)
    ELSE LET sample == samples[i]
             time_minutes == Minutes(sample.sampling_time, TicksPerMinute)
             acc1 == [acc EXCEPT
                        !.min_time = F32Min(@, time_minutes),
                        !.max_time = F32Max(@, time_minutes),
                        !.min_value = IntMin(@, sample.first_channel_result),
                        !.max_value = IntMax(@, sample.first_channel_result)]
         IN IF sample.starting_channel >= Len(acc.lines)
            THEN Err([kind |-> "TooManyChannels", channel |-> sample.starting_channel])
            ELSE ToGraphLoop(samples, i + 1,
                    [acc1 EXCEPT !.lines[sample.starting_channel + 1].points =
                        Append(@, <<time_minutes, sample.first_channel_result>>)])

\* A plausible slip: a sample outside the line slots skipped instead of
\* rejected.
RECURSIVE ToGraphLoopSkipping(_, _, _)
ToGraphLoopSkipping(samples, i, acc) ==
    IF i > Len(samples) THEN Ok(acc)
    ELSE LET sample == samples[i]
             time_minutes == Minutes(sample.sampling_time, TicksPerMinute)
             acc1 == [acc EXCEPT
                        !.min_time = F32Min(@, time_minutes),
                        !.max_time = F32Max(@, time_minutes),
                        !.min_value = IntMin(@, sample.first_channel_result),
                        !.max_value = IntMax(@, sample.first_channel_result)]
         IN IF sample.starting_channel >= Len(acc.lines)
            THEN ToGraphLoopSkipping(samples, i + 1, acc1)
            ELSE ToGraphLoopSkipping(samples, i + 1,
                    [acc1 EXCEPT !.lines[sample.starting_channel + 1].points =
                        Append(@, <<time_minutes, sample.first_channel_result>>)])

ToGraphSkipping(data) ==
    ToGraphLoopSkipping(data.samples, 1,
        [min_time |-> F32_MAX, max_time |-> F32_MIN,
         min_value |-> I64_MAX, max_value |-> I64_MIN,
         lines |-> [i \in 1..Len(Palette) |-> LineNew(Palette[i])]])

ToGraph(data) ==
    ToGraphLoop(data.samples, 1,
        [min_time |-> F32_MAX, max_time |-> F32_MIN,
         min_value |-> I64_MAX, max_value |-> I64_MIN,
         lines |-> [i \in 1..Len(Palette) |-> LineNew(Palette[i])]])

\* Iterator::min and Iterator::max followed by unwrap_or_default.
RECURSIVE SeqMinOrDefault(_)
SeqMinOrDefault(s) ==
    IF Len(s) = 0 THEN 0
    ELSE IF Len(s) = 1 THEN s[1]
    ELSE IntMin(s[1], SeqMinOrDefault(Tail(s)))

RECURSIVE SeqMaxOrDefault(_)
SeqMaxOrDefault(s) ==
    IF Len(s) = 0 THEN 0
    ELSE IF Len(s) = 1 THEN s[1]
    ELSE IntMax(s[1], SeqMaxOrDefault(Tail(s)))

PointValues(line) == [i \in 1..Len(line.points) |-> line.points[i][2]]

\* A plausible slip: one minimum, over all lines, subtracted everywhere.
NormaliseValuesGlobalMinimum(graph) ==
    LET minimum == SeqMinOrDefault(
                        [i \in 1..Len(graph.lines) |->
                            SeqMinOrDefault(PointValues(graph.lines[i]))])
        normalised_lines == [i \in 1..Len(graph.lines) |->
            [color |-> graph.lines[i].color,
             points |-> [j \in 1..Len(graph.lines[i].points) |->
                            <<graph.lines[i].points[j][1],
                              graph.lines[i].points[j][2] - minimum>>]]]
    IN [min_time |-> graph.min_time,
        max_time |-> graph.max_time,
        min_value |-> 0,
        max_value |-> SeqMaxOrDefault(
            [i \in 1..Len(normalised_lines) |->
                SeqMaxOrDefault(PointValues(normalised_lines[i]))]),
        lines |-> normalised_lines]

NormaliseValuesToZero(graph) ==
    LET line_minima == [i \in 1..Len(graph.lines) |->
                            SeqMinOrDefault(PointValues(graph.lines[i]))]
        normalised_lines == [i \in 1..Len(graph.lines) |->
            [color |-> graph.lines[i].color,
             points |-> [j \in 1..Len(graph.lines[i].points) |->
                            <<graph.lines[i].points[j][1],
                              graph.lines[i].points[j][2] - line_minima[i]>>]]]
    IN [min_time |-> graph.min_time,
        max_time |-> graph.max_time,
        min_value |-> 0,
        max_value |-> SeqMaxOrDefault(
            [i \in 1..Len(normalised_lines) |->
                SeqMaxOrDefault(PointValues(normalised_lines[i]))]),
        lines |-> normalised_lines]

\* The raster is determined by the size, the two axis ranges and the series
\* in line order; drawing fails when the backend or a font does (plotOk).
PlotToBuffer(graph, plotOk) ==
    IF plotOk
    THEN Ok([png |-> [width |-> WIDTH, height |-> HEIGHT,
                      x_range |-> <<graph.min_time, graph.max_time>>,
                      y_range |-> <<graph.min_value,
                                    IntMax(graph.max_value * 2, ValueAxisFloor)>>,
                      series |-> graph.lines]])
    ELSE Err([kind |-> "Plotting"])

\* data.to_graph()?.normalise_values_to_zero().plot_to_buffer()?
GraphPng(data, plotOk) ==
    LET graph == ToGraph(data)
    IN IF graph.ok THEN PlotToBuffer(NormaliseValuesToZero(graph.v), plotOk)
       ELSE graph

\* ------------------------------------------------------------------------
\* state.rs and lib.rs
\* ------------------------------------------------------------------------
IncompleteTest(data) == [type |-> "IncompleteTest", data |-> data]

CompletedTest(overall, subgroup_results, graph_png) ==
    [type |-> "CompletedTest", overall |-> overall,
     subgroup_results |-> subgroup_results, graph_png |-> graph_png]

StateStarted == IncompleteTest(TestDataEmpty)

StateIncomplete(data) == IncompleteTest(data)

UnexpectedMessage(state, message) ==
    [kind |-> "UnexpectedMessage", state |-> state, message |-> message]

TestFinishedMissingResult == [kind |-> "TestFinishedMissingResult"]

\* A plausible slip: UnexpectedMessage listed with the kinds without a state.
GetStateForgetful(err) ==
    IF err.kind \in {"MissingTestFinished"}
    THEN Some(err.state)
    ELSE None

\* Error::get_state: the state to restore, for the two kinds that carry one.
GetState(err) ==
    IF err.kind \in {"MissingTestFinished", "UnexpectedMessage"}
    THEN Some(err.state)
    ELSE None

\* A plausible slip: the chart drawn from the data the session held.
CompleteFromHeld(self, result, data, plotOk) ==
    LET graph_png == GraphPng(self.data, plotOk)
    IN IF graph_png.ok
       THEN Ok(CompletedTest(result.detection_result, result.subgroup_results,
                             graph_png.v))
       ELSE graph_png

\* IncompleteTest::complete: the chart is drawn from the data passed in.
Complete(self, result, data, plotOk) ==
    LET graph_png == GraphPng(data, plotOk)
    IN IF graph_png.ok
       THEN Ok(CompletedTest(result.detection_result, result.subgroup_results,
                             graph_png.v))
       ELSE graph_png

\* State::update. The value is the Result the function returns together with
\* the state it hands to websockets.notify on the way, if any.
Updated(result, notified) == [result |-> result, notified |-> notified]

\* A plausible slip: a finish without a result handled like an unexpected
\* message, which carries the state to restore.
FinishTestRestoring(incomplete_test, message, plotOk) ==
    IF message.test.result.some
    THEN LET completed_test == Complete(incomplete_test, message.test.result.v,
                                        message.test.data, plotOk)
         IN IF completed_test.ok
            THEN Updated(Ok(completed_test.v), Some(completed_test.v))
            ELSE Updated(completed_test, None)
    ELSE Updated(Err(UnexpectedMessage(incomplete_test, message)), None)

\* The TestFinished arm.
FinishTest(incomplete_test, message, plotOk) ==
    IF message.test.result.some
    THEN LET completed_test == Complete(incomplete_test, message.test.result.v,
                                        message.test.data, plotOk)
         IN IF completed_test.ok
            THEN Updated(Ok(completed_test.v), Some(completed_test.v))
            ELSE Updated(completed_test, None)
    ELSE Updated(Err(TestFinishedMissingResult), None)

\* The arms for the events that do not finish the test.
\* A plausible slip: the samples of the payload appended to the held ones.
UpdateUnfinishedMerging(incomplete_test, message) ==
    LET merged == TestData(incomplete_test.data.samples \o message.test.data.samples,
                           incomplete_test.data.temperature_samples
                                \o message.test.data.temperature_samples)
    IN CASE message.event = "NEW_DATA" ->
                Updated(Ok(StateIncomplete(merged)), Some(StateIncomplete(merged)))
         [] message.event \in {"DEVICE_READY", "TEST_STARTED"} ->
                Updated(Ok(StateIncomplete(merged)), None)
         [] OTHER -> Updated(Err(UnexpectedMessage(incomplete_test, message)), None)

\* A plausible slip: ALREADY_TESTING and CONTINUE_TEST taken as snapshots.
UpdateUnfinishedLenient(incomplete_test, message) ==
    IF message.event = "NEW_DATA"
    THEN Updated(Ok(StateIncomplete(message.test.data)),
                 Some(StateIncomplete(message.test.data)))
    ELSE Updated(Ok(StateIncomplete(message.test.data)), None)

UpdateUnfinished(incomplete_test, message) ==
    CASE message.event = "NEW_DATA" ->
            Updated(Ok(StateIncomplete(message.test.data)),
                    Some(StateIncomplete(message.test.data)))
      [] message.event = "DEVICE_READY" ->
            Updated(Ok(StateIncomplete(message.test.data)), None)
      [] message.event = "TEST_STARTED" ->
            Updated(Ok(StateIncomplete(message.test.data)), None)
      [] message.event \in {"ALREADY_TESTING", "CONTINUE_TEST"} ->
            Updated(Err(UnexpectedMessage(incomplete_test, message)), None)

\* A plausible slip: a completed session started afresh by TEST_STARTED.
StateUpdateReopening(self, message, plotOk) ==
    IF self.type = "IncompleteTest"
    THEN IF message.event = "TEST_FINISHED"
         THEN FinishTest(self, message, plotOk)
         ELSE UpdateUnfinished(self, message)
    ELSE IF message.event = "TEST_STARTED"
         THEN Updated(Ok(StateIncomplete(message.test.data)), None)
         ELSE Updated(Err(UnexpectedMessage(self, message)), None)

StateUpdate(self, message, plotOk) ==
    IF self.type = "IncompleteTest"
    THEN IF message.event = "TEST_FINISHED"
         THEN FinishTest(self, message, plotOk)
         ELSE UpdateUnfinished(self, message)
    ELSE Updated(Err(UnexpectedMessage(self, message)), None)

\* State::current_graph_png
CurrentGraphPng(self, plotOk) ==
    IF self.type = "IncompleteTest"
    THEN IF Len(self.data.samples) = 0
         THEN Ok(None)
         ELSE LET png == GraphPng(self.data, plotOk)
              IN IF png.ok THEN Ok(Some(png.v)) ELSE png
    ELSE Ok(Some(self.graph_png))

\* ------------------------------------------------------------------------
\* websockets.rs
\* ------------------------------------------------------------------------
Base64Encode(bytes) == [base64 |-> bytes]

WebsocketMessage(graph_png_base64, results) ==
    [graph_png_base64 |-> graph_png_base64, results |-> results]

\* A plausible slip: the cached chart of a completed test left out.
WebsocketMessageFromNoCachedChart(state, plotOk) ==
    IF state.type = "IncompleteTest"
    THEN IF Len(state.data.samples) = 0
         THEN Ok(WebsocketMessage(None, None))
         ELSE LET png == GraphPng(state.data, plotOk)
              IN IF png.ok
                 THEN Ok(WebsocketMessage(Some(Base64Encode(png.v)), None))
                 ELSE png
    ELSE Ok(WebsocketMessage(
                None,
                Some([overall |-> state.overall,
                      subgroup_results |-> state.subgroup_results])))

\* TryFrom<&State> for WebsocketMessage
WebsocketMessageFrom(state, plotOk) ==
    IF state.type = "IncompleteTest"
    THEN IF Len(state.data.samples) = 0
         THEN Ok(WebsocketMessage(None, None))
         ELSE LET png == GraphPng(state.data, plotOk)
              IN IF png.ok
                 THEN Ok(WebsocketMessage(Some(Base64Encode(png.v)), None))
                 ELSE png
    ELSE Ok(WebsocketMessage(
                Some(Base64Encode(state.graph_png)),
                Some([overall |-> state.overall,
                      subgroup_results |-> state.subgroup_results])))

\* A plausible slip: only the first socket of the list is sent to.
SocketsNotifyFirstOnly(websockets, state, plotOk) ==
    IF Len(websockets) = 0 THEN << >>
    ELSE LET maybe_message_json == WebsocketMessageFrom(state, plotOk)
         IN IF maybe_message_json.ok
            THEN <<[viewer |-> websockets[1], message |-> maybe_message_json.v,
                    status |-> "spawned"]>>
            ELSE << >>

\* SessionSockets::notify: the send tasks it spawns, one per socket of the
\* list, in list order; none when the list is empty or the payload cannot
\* be built.
SocketsNotify(websockets, state, plotOk) ==
    IF Len(websockets) = 0 THEN << >>
    ELSE LET maybe_message_json == WebsocketMessageFrom(state, plotOk)
         IN IF maybe_message_json.ok
            THEN [i \in 1..Len(websockets) |->
                    [viewer |-> websockets[i], message |-> maybe_message_json.v,
                     status |-> "spawned"]]
            ELSE << >>

\* ------------------------------------------------------------------------
\* sessions.rs, bin/web.rs, notifier.rs: the running system
\* ------------------------------------------------------------------------
VARIABLES
    sessions,    \* Sessions.states: the registry, id -> Session
    lock,        \* the holder of the registry mutex, if any
    nextId,      \* the id the next create returns
    now,         \* the clock Timestamp::now() reads
    creations,   \* what create_session answered: id -> the address to notify
    timers,      \* the expiry task of each created session
    handlers,    \* the receive_data invocations: position and locals
    webhooks,    \* the number of webhooks received so far
    overlap,     \* the pairs of handlers whose current requests overlapped on one id
    emails,      \* the email attempts started so far, in order
    sockets,     \* the viewer sockets registered for each session
    nextViewer,  \* the next viewer socket to connect
    sends,       \* the websocket send tasks spawned so far, in order
    charts,      \* the graph_data request: position, id and response
    counted,     \* the last answer of count_sessions, if any
    pushing,     \* the sessions whose viewer list is locked by a registering viewer
    call         \* a function applied on its own: name, argument, result

\* The variables of the running system.
systemVars == <<sessions, lock, nextId, now, creations, timers, handlers, webhooks,
                overlap, emails, sockets, nextViewer, sends, charts, counted, pushing>>

vars == <<systemVars, call>>

Session(state, created, email_to_notify, id) ==
    [state |-> state, created |-> created, email_to_notify |-> email_to_notify, id |-> id]

\* The first reading of the clock.
Epoch == 100

ResponseReceived == [status |-> "OK", body |-> "Received"]
ResponseFailed == [status |-> "BAD_REQUEST", body |-> "Failed to process data"]
ResponseUnknownId == [status |-> "NOT_FOUND", body |-> "Unknown ID"]

HandlerIdle ==
    [pc |-> "idle", id |-> NoId, message |-> None, plot_ok |-> None, session |-> None,
     state |-> None, response |-> None]

InFlight(h) == handlers[h].pc \in {"waiting", "locked", "removed", "done"}

\* The answers of graph_data.
ChartPng(bytes) == [status |-> "OK", content_type |-> "image/png", body |-> bytes]
ChartNoData ==
    [status |-> "NOT_FOUND", content_type |-> "text/plain",
     body |-> "No data has been received for this test yet."]
ChartError ==
    [status |-> "INTERNAL_SERVER_ERROR", content_type |-> "text/plain",
     body |-> "Sorry, an error occurred"]
ChartUnknownId ==
    [status |-> "NOT_FOUND", content_type |-> "text/plain",
     body |-> "This test ID was not recognised."]

ChartIdle == [pc |-> "idle", id |-> NoId, requests |-> 0, response |-> None]

\* HashMap::get, ::remove and ::insert on Sessions.states
SessionsGet(states, id) == IF id \in DOMAIN states THEN Some(states[id]) ELSE None

SessionsRemove(states, id) == [x \in DOMAIN states \ {id} |-> states[x]]

SessionsInsert(states, id, session) ==
    [x \in DOMAIN states \cup {id} |-> IF x = id THEN session ELSE states[x]]

\* The session list the handler passes to State::update for a session.
SocketsOf(id) == sockets[id]

\* The system after ServerState::try_from_env.
InitSystem ==
    /\ sessions = << >>
    /\ lock = None
    /\ nextId = 1
    /\ now = Epoch
    /\ creations = << >>
    /\ timers = << >>
    /\ handlers = [h \in Handlers |-> HandlerIdle]
    /\ webhooks = 0
    /\ overlap = {}
    /\ emails = << >>
    /\ sockets = [id \in SessionIds |-> << >>]
    /\ nextViewer = 1
    /\ sends = << >>
    /\ charts = ChartIdle
    /\ counted = None
    /\ pushing = {}

\* No function is being applied on its own.
NoCall == [fn |-> "none", arg |-> None, result |-> None]

Call(fn, arg) == [fn |-> fn, arg |-> arg, result |-> None]

Init == InitSystem /\ call = NoCall

\* A plausible slip: the id is not fresh, so that a later create lands on the
\* entry of the first session.
CreateSessionReusingId(email_to_notify) ==
    /\ nextId <= MaxSessions
    /\ lock = None
    /\ sessions' = SessionsInsert(sessions, 1, Session(StateStarted, now, email_to_notify, 1))
    /\ timers' = [x \in DOMAIN timers \cup {nextId} |->
                    IF x = nextId THEN "sleeping" ELSE timers[x]]
    /\ creations' = [x \in DOMAIN creations \cup {nextId} |->
                    IF x = nextId THEN email_to_notify ELSE creations[x]]
    /\ nextId' = nextId + 1
    /\ now' = now + 1
    /\ UNCHANGED <<pushing, counted, call, charts, lock, handlers, webhooks, overlap, emails, sockets, nextViewer, sends>>

\* ServerState::create_session: create under the lock, then spawn the expiry
\* task. Uuid::new_v4 is a fresh id.
CreateSession(email_to_notify) ==
    /\ nextId <= MaxSessions
    /\ lock = None
    /\ sessions' = SessionsInsert(sessions, nextId,
                        Session(StateStarted, now, email_to_notify, nextId))
    /\ timers' = [x \in DOMAIN timers \cup {nextId} |->
                    IF x = nextId THEN "sleeping" ELSE timers[x]]
    /\ creations' = [x \in DOMAIN creations \cup {nextId} |->
                    IF x = nextId THEN email_to_notify ELSE creations[x]]
    /\ nextId' = nextId + 1
    /\ now' = now + 1
    /\ UNCHANGED <<pushing, counted, call, charts, lock, handlers, webhooks, overlap, emails, sockets, nextViewer, sends>>

\* A plausible slip: the expiry task ends without removing the entry.
ExpireForgetful(id) ==
    /\ id \in DOMAIN timers
    /\ timers[id] = "sleeping"
    /\ lock = None
    /\ timers' = [timers EXCEPT ![id] = "fired"]
    /\ UNCHANGED <<pushing, counted, call, charts, sessions, creations, lock, nextId, now, handlers, webhooks, overlap, emails,
                   sockets, nextViewer, sends>>

\* A plausible slip: the expiry sweeps every session created up to this one.
ExpireSweeping(id) ==
    /\ id \in DOMAIN timers
    /\ timers[id] = "sleeping"
    /\ lock = None
    /\ sessions' = [x \in {y \in DOMAIN sessions : y > id} |-> sessions[x]]
    /\ timers' = [timers EXCEPT ![id] = "fired"]
    /\ UNCHANGED <<pushing, counted, call, charts, creations, lock, nextId, now, handlers, webhooks, overlap, emails, sockets,
                   nextViewer, sends>>

\* A plausible slip: only a session that has received no data expires.
ExpireIdleOnly(id) ==
    /\ id \in DOMAIN timers
    /\ timers[id] = "sleeping"
    /\ lock = None
    /\ id \in DOMAIN sessions => Len(sessions[id].state.data.samples) = 0
    /\ sessions' = SessionsRemove(sessions, id)
    /\ timers' = [timers EXCEPT ![id] = "fired"]
    /\ UNCHANGED <<pushing, counted, call, charts, creations, lock, nextId, now, handlers, webhooks, overlap, emails, sockets,
                   nextViewer, sends>>

\* The expiry task, once its sleep is over.
Expire(id) ==
    /\ id \in DOMAIN timers
    /\ timers[id] = "sleeping"
    /\ lock = None
    /\ sessions' = SessionsRemove(sessions, id)
    /\ timers' = [timers EXCEPT ![id] = "fired"]
    /\ UNCHANGED <<pushing, counted, call, charts, creations, lock, nextId, now, handlers, webhooks, overlap, emails, sockets,
                   nextViewer, sends>>

\* A webhook reaches receive_data. The body is first read by State::update,
\* so its content is drawn there, together with whether drawing a chart
\* succeeds during this update.
HandlerArrive(h, id) ==
    /\ handlers[h].pc \in {"idle", "replied"}
    /\ webhooks < MaxWebhooks
    /\ webhooks' = webhooks + 1
    /\ handlers' = [handlers EXCEPT ![h] =
            [HandlerIdle EXCEPT !.pc = "waiting", !.id = id]]
    /\ overlap' = {p \in overlap : h \notin p}
                  \cup {{h, g} : g \in {g \in Handlers \ {h} :
                                            InFlight(g) /\ handlers[g].id = id}}
    /\ UNCHANGED <<pushing, counted, call, charts, creations, sessions, lock, nextId, now, timers, emails, sockets, nextViewer, sends>>

\* A plausible slip: the handler goes on without owning the mutex.
HandlerLockNoWait(h) ==
    /\ handlers[h].pc = "waiting"
    /\ lock' = Some(h)
    /\ handlers' = [handlers EXCEPT ![h].pc = "locked"]
    /\ UNCHANGED <<pushing, counted, call, charts, creations, sessions, nextId, now, timers, webhooks, overlap, emails,
                   sockets, nextViewer, sends>>

\* server_state.sessions.lock()
HandlerLock(h) ==
    /\ handlers[h].pc = "waiting"
    /\ lock = None
    /\ lock' = Some(h)
    /\ handlers' = [handlers EXCEPT ![h].pc = "locked"]
    /\ UNCHANGED <<pushing, counted, call, charts, creations, sessions, nextId, now, timers, webhooks, overlap, emails, sockets,
                   nextViewer, sends>>

\* A plausible slip: the guard scoped to the remove, as in create_session,
\* so that the mutex is free while the session is being updated.
HandlerRemoveScoped(h) ==
    /\ handlers[h].pc = "locked"
    /\ handlers' = [handlers EXCEPT ![h].pc = "removed",
                        ![h].session = SessionsGet(sessions, handlers[h].id)]
    /\ sessions' = SessionsRemove(sessions, handlers[h].id)
    /\ lock' = None
    /\ UNCHANGED <<pushing, counted, call, charts, creations, nextId, now, timers, webhooks, overlap, emails, sockets,
                   nextViewer, sends>>

\* sessions.remove(&id)
HandlerRemove(h) ==
    /\ handlers[h].pc = "locked"
    /\ handlers' = [handlers EXCEPT ![h].pc = "removed",
                        ![h].session = SessionsGet(sessions, handlers[h].id)]
    /\ sessions' = SessionsRemove(sessions, handlers[h].id)
    /\ UNCHANGED <<pushing, counted, call, charts, creations, lock, nextId, now, timers, webhooks, overlap, emails, sockets,
                   nextViewer, sends>>

\* The arms of the match on the updated state: what is put back into the
\* registry, which email task is spawned and what the webhook is answered.
Outcome(reinsert, mail, response) ==
    [reinsert |-> reinsert, mail |-> mail, response |-> response]

\* A plausible slip: the completed session put back like any other state.
ReceiveDataMatchKeepCompleted(session, state) ==
    IF state.ok
    THEN Outcome(Some(Session(state.v, session.created, session.email_to_notify,
                              session.id)),
                 IF state.v.type = "CompletedTest"
                 THEN Some([kind |-> "notify", completed_test |-> state.v,
                            recipient |-> session.email_to_notify, id |-> session.id,
                            status |-> "pending"])
                 ELSE None,
                 ResponseReceived)
    ELSE IF GetState(state.err).some
         THEN Outcome(Some(Session(GetState(state.err).v, session.created,
                                   session.email_to_notify, session.id)),
                      None, ResponseFailed)
         ELSE Outcome(None,
                      Some([kind |-> "notify_error",
                            error |-> <<"Irrecoverable error processing data", state.err>>,
                            recipient |-> session.email_to_notify, id |-> session.id,
                            status |-> "pending"]),
                      ResponseFailed)

\* A plausible slip: the completion handed to notify_error instead of notify.
ReceiveDataMatchWrongMail(session, state) ==
    IF state.ok /\ state.v.type # "CompletedTest"
    THEN Outcome(Some(Session(state.v, session.created, session.email_to_notify,
                              session.id)),
                 None, ResponseReceived)
    ELSE IF ~state.ok /\ GetState(state.err).some
         THEN Outcome(Some(Session(GetState(state.err).v, session.created,
                                   session.email_to_notify, session.id)),
                      None, ResponseFailed)
         ELSE Outcome(None,
                      Some([kind |-> "notify_error",
                            error |-> <<"Irrecoverable error processing data", state>>,
                            recipient |-> session.email_to_notify, id |-> session.id,
                            status |-> "pending"]),
                      IF state.ok THEN ResponseReceived ELSE ResponseFailed)

\* A plausible slip: the session of a recoverable failure not put back.
ReceiveDataMatchDroppingRecovered(session, state) ==
    IF state.ok
    THEN IF state.v.type = "CompletedTest"
         THEN Outcome(None,
                      Some([kind |-> "notify", completed_test |-> state.v,
                            recipient |-> session.email_to_notify, id |-> session.id,
                            status |-> "pending"]),
                      ResponseReceived)
         ELSE Outcome(Some(Session(state.v, session.created, session.email_to_notify,
                                   session.id)),
                      None, ResponseReceived)
    ELSE IF GetState(state.err).some
         THEN Outcome(None, None, ResponseFailed)
         ELSE Outcome(None,
                      Some([kind |-> "notify_error",
                            error |-> <<"Irrecoverable error processing data", state.err>>,
                            recipient |-> session.email_to_notify, id |-> session.id,
                            status |-> "pending"]),
                      ResponseFailed)

\* A plausible slip: the session put back is built anew, stamped with the
\* current time.
ReceiveDataMatchRestamping(session, state) ==
    IF state.ok
    THEN IF state.v.type = "CompletedTest"
         THEN Outcome(None,
                      Some([kind |-> "notify", completed_test |-> state.v,
                            recipient |-> session.email_to_notify, id |-> session.id,
                            status |-> "pending"]),
                      ResponseReceived)
         ELSE Outcome(Some(Session(state.v, now, session.email_to_notify, session.id)),
                      None, ResponseReceived)
    ELSE IF GetState(state.err).some
         THEN Outcome(Some(Session(GetState(state.err).v, now,
                                   session.email_to_notify, session.id)),
                      None, ResponseFailed)
         ELSE Outcome(None,
                      Some([kind |-> "notify_error",
                            error |-> <<"Irrecoverable error processing data", state.err>>,
                            recipient |-> session.email_to_notify, id |-> session.id,
                            status |-> "pending"]),
                      ResponseFailed)

ReceiveDataMatch(session, state) ==
    IF state.ok
    THEN IF state.v.type = "CompletedTest"
         THEN Outcome(None,
                      Some([kind |-> "notify", completed_test |-> state.v,
                            recipient |-> session.email_to_notify, id |-> session.id,
                            status |-> "pending"]),
                      ResponseReceived)
         ELSE Outcome(Some(Session(state.v, session.created, session.email_to_notify,
                                   session.id)),
                      None, ResponseReceived)
    ELSE IF GetState(state.err).some
         THEN Outcome(Some(Session(GetState(state.err).v, session.created,
                                   session.email_to_notify, session.id)),
                      None, ResponseFailed)
         ELSE Outcome(None,
                      Some([kind |-> "notify_error",
                            error |-> <<"Irrecoverable error processing data", state.err>>,
                            recipient |-> session.email_to_notify, id |-> session.id,
                            status |-> "pending"]),
                      ResponseFailed)

\* The Some branch of receive_data: update the removed session and act on
\* the result. The lock is held until the function returns.
HandlerUpdate(h, message, plotOk) ==
    /\ handlers[h].pc = "removed"
    /\ handlers[h].session.some
    /\ LET session == handlers[h].session.v
           updated == StateUpdate(session.state, message, plotOk)
           outcome == ReceiveDataMatch(session, updated.result)
       IN /\ handlers' = [handlers EXCEPT ![h].pc = "done",
                              ![h].message = Some(message),
                              ![h].plot_ok = Some(plotOk),
                              ![h].state = Some(updated.result),
                              ![h].response = Some(outcome.response)]
          /\ sends' = IF updated.notified.some
                      THEN sends \o SocketsNotify(SocketsOf(session.id),
                                                  updated.notified.v, plotOk)
                      ELSE sends
          /\ sessions' = IF outcome.reinsert.some
                         THEN SessionsInsert(sessions, session.id, outcome.reinsert.v)
                         ELSE sessions
          /\ emails' = IF outcome.mail.some THEN Append(emails, outcome.mail.v) ELSE emails
    /\ UNCHANGED <<pushing, counted, call, charts, creations, lock, nextId, now, timers, webhooks, overlap, sockets, nextViewer>>

\* A plausible slip: the webhook for an id that is not there acknowledged
\* like any other.
HandlerUnknownAccepting(h) ==
    /\ handlers[h].pc = "removed"
    /\ ~handlers[h].session.some
    /\ handlers' = [handlers EXCEPT ![h].pc = "done",
                        ![h].response = Some(ResponseReceived)]
    /\ UNCHANGED <<pushing, counted, call, charts, creations, sessions, lock, nextId, now, timers, webhooks, overlap, emails,
                   sockets, nextViewer, sends>>

\* The else branch of receive_data.
HandlerUnknown(h) ==
    /\ handlers[h].pc = "removed"
    /\ ~handlers[h].session.some
    /\ handlers' = [handlers EXCEPT ![h].pc = "done",
                        ![h].response = Some(ResponseUnknownId)]
    /\ UNCHANGED <<pushing, counted, call, charts, creations, sessions, lock, nextId, now, timers, webhooks, overlap, emails,
                   sockets, nextViewer, sends>>

\* A plausible slip: the handler awaits the email it started, instead of
\* leaving it to a spawned task, and so keeps the guard until it is answered.
HandlerReturnAwaitingMail(h) ==
    /\ handlers[h].pc = "done"
    /\ \A i \in 1..Len(emails) :
            emails[i].id = handlers[h].id => emails[i].status # "pending"
    /\ lock' = None
    /\ handlers' = [handlers EXCEPT ![h] =
            [HandlerIdle EXCEPT !.pc = "replied", !.id = handlers[h].id,
                                !.response = handlers[h].response]]
    /\ UNCHANGED <<pushing, counted, call, charts, creations, sessions, nextId, now, timers, webhooks, overlap, emails,
                   sockets, nextViewer, sends>>

\* receive_data returns: the locals and the guard are dropped and the
\* response goes out.
HandlerReturn(h) ==
    /\ handlers[h].pc = "done"
    /\ lock' = None
    /\ handlers' = [handlers EXCEPT ![h] =
            [HandlerIdle EXCEPT !.pc = "replied", !.id = handlers[h].id,
                                !.response = handlers[h].response]]
    /\ UNCHANGED <<pushing, counted, call, charts, creations, sessions, nextId, now, timers, webhooks, overlap, emails, sockets,
                   nextViewer, sends>>

\* A plausible slip: every failed attempt, of either kind, followed by an
\* error email.
MailgunAnswerRetrying(i, ok) ==
    /\ i \in 1..Len(emails)
    /\ emails[i].status = "pending"
    /\ LET answered == [emails EXCEPT ![i].status = IF ok THEN "ok" ELSE "failed"]
       IN emails' = IF ~ok
                    THEN Append(answered,
                            [kind |-> "notify_error",
                             error |-> <<"Error notifying of result", "Reqwest">>,
                             recipient |-> emails[i].recipient, id |-> emails[i].id,
                             status |-> "pending"])
                    ELSE answered
    /\ UNCHANGED <<pushing, counted, call, charts, creations, sessions, lock, nextId, now, timers, handlers, webhooks, overlap,
                   sockets, nextViewer, sends>>

\* The spawned email task: the provider answers the pending attempt. When the
\* result email fails the same task goes on to notify_error.
MailgunAnswer(i, ok) ==
    /\ i \in 1..Len(emails)
    /\ emails[i].status = "pending"
    /\ LET answered == [emails EXCEPT ![i].status = IF ok THEN "ok" ELSE "failed"]
       IN emails' = IF emails[i].kind = "notify" /\ ~ok
                    THEN Append(answered,
                            [kind |-> "notify_error",
                             error |-> <<"Error notifying of result", "Reqwest">>,
                             recipient |-> emails[i].recipient, id |-> emails[i].id,
                             status |-> "pending"])
                    ELSE answered
    /\ UNCHANGED <<pushing, counted, call, charts, creations, sessions, lock, nextId, now, timers, handlers, webhooks, overlap,
                   sockets, nextViewer, sends>>

\* SessionSockets::push: a viewer connects to a session that was created.
PushViewer(id) ==
    /\ id \in DOMAIN timers
    /\ nextViewer <= MaxViewers
    /\ sockets' = [sockets EXCEPT ![id] = Append(@, nextViewer)]
    /\ nextViewer' = nextViewer + 1
    /\ UNCHANGED <<pushing, counted, call, charts, creations, sessions, lock, nextId, now, timers, handlers, webhooks, overlap,
                   emails, sends>>

\* SessionSockets::push in its two steps, for the runs in which the mutex of
\* the viewer list matters: the lock of the list, then the push and the
\* return, which releases it.
PushLock(id) ==
    /\ id \in DOMAIN timers
    /\ nextViewer + Cardinality(pushing) <= MaxViewers
    /\ id \notin pushing
    /\ pushing' = pushing \cup {id}
    /\ UNCHANGED <<sessions, lock, nextId, now, creations, timers, handlers, webhooks,
                   overlap, emails, sockets, nextViewer, sends, charts, counted, call>>

\* A plausible slip: the registering viewer looks its session up in the
\* registry while it holds the lock of the list.
PushReleaseViaRegistry(id) ==
    /\ id \in pushing
    /\ lock = None
    /\ sockets' = [sockets EXCEPT ![id] = Append(@, nextViewer)]
    /\ nextViewer' = nextViewer + 1
    /\ pushing' = pushing \ {id}
    /\ UNCHANGED <<sessions, lock, nextId, now, creations, timers, handlers, webhooks,
                   overlap, emails, sends, charts, counted, call>>

PushRelease(id) ==
    /\ id \in pushing
    /\ sockets' = [sockets EXCEPT ![id] = Append(@, nextViewer)]
    /\ nextViewer' = nextViewer + 1
    /\ pushing' = pushing \ {id}
    /\ UNCHANGED <<sessions, lock, nextId, now, creations, timers, handlers, webhooks,
                   overlap, emails, sends, charts, counted, call>>

\* The update of a handler when the mutex of the viewer list matters:
\* SessionSockets::notify locks the list for the time of cloning it, so an
\* update that notifies waits while a registering viewer holds that lock.
HandlerUpdateLocking(h, message, plotOk) ==
    /\ handlers[h].pc = "removed"
    /\ handlers[h].session.some
    /\ StateUpdate(handlers[h].session.v.state, message, plotOk).notified.some
            => handlers[h].id \notin pushing
    /\ HandlerUpdate(h, message, plotOk)

\* SessionSocket::send, the spawned task: it takes the socket's lock, sends
\* the text, logs a failure and releases the lock.
SocketSend(i, ok) ==
    /\ i \in 1..Len(sends)
    /\ sends[i].status = "spawned"
    /\ sends' = [sends EXCEPT ![i].status = IF ok THEN "sent" ELSE "failed"]
    /\ UNCHANGED <<pushing, counted, call, charts, creations, sessions, lock, nextId, now, timers, handlers, webhooks, overlap,
                   emails, sockets, nextViewer>>

\* A chart request reaches graph_data.
ChartArrive(id) ==
    /\ charts.pc \in {"idle", "replied"}
    /\ charts.requests < MaxCharts
    /\ charts' = [pc |-> "waiting", id |-> id, requests |-> charts.requests + 1,
                  response |-> None]
    /\ UNCHANGED <<pushing, counted, call, sessions, lock, nextId, now, creations, timers, handlers, webhooks,
                   overlap, emails, sockets, nextViewer, sends>>

\* A plausible slip: a chart that cannot be drawn reported as "no data yet".
GraphDataMatchHidingErrors(session, plotOk) ==
    IF session.some
    THEN LET png == CurrentGraphPng(session.v.state, plotOk)
         IN IF png.ok /\ png.v.some THEN ChartPng(png.v.v) ELSE ChartNoData
    ELSE ChartUnknownId

\* The match of graph_data on the session it finds.
GraphDataMatch(session, plotOk) ==
    IF session.some
    THEN LET png == CurrentGraphPng(session.v.state, plotOk)
         IN IF png.ok
            THEN IF png.v.some THEN ChartPng(png.v.v) ELSE ChartNoData
            ELSE ChartError
    ELSE ChartUnknownId

\* graph_data: it takes the mutex, reads the session, draws and answers; the
\* guard is dropped on return and nothing in between awaits.
GraphData(plotOk) ==
    /\ charts.pc = "waiting"
    /\ lock = None
    /\ charts' = [charts EXCEPT !.pc = "replied",
                      !.response = Some(GraphDataMatch(SessionsGet(sessions, charts.id),
                                                       plotOk))]
    /\ UNCHANGED <<pushing, counted, call, sessions, lock, nextId, now, creations, timers, handlers, webhooks,
                   overlap, emails, sockets, nextViewer, sends>>

\* count_sessions: lock the registry and answer with its length.
CountSessions ==
    /\ lock = None
    /\ counted' = Some(Cardinality(DOMAIN sessions))
    /\ UNCHANGED <<pushing, call, charts, sessions, lock, nextId, now, creations, timers, handlers,
                   webhooks, overlap, emails, sockets, nextViewer, sends>>

\* The send task in its two steps. It first awaits the socket's own mutex,
\* which is free unless another send to the same socket is being written...
\* A plausible slip: one mutex shared by the sockets of all viewers.
SocketLockShared(i) ==
    /\ i \in 1..Len(sends)
    /\ sends[i].status = "spawned"
    /\ \A j \in 1..Len(sends) : sends[j].status # "sending"
    /\ sends' = [sends EXCEPT ![i].status = "sending"]
    /\ UNCHANGED <<pushing, counted, call, charts, creations, sessions, lock, nextId, now, timers, handlers, webhooks,
                   overlap, emails, sockets, nextViewer>>

SocketLock(i) ==
    /\ i \in 1..Len(sends)
    /\ sends[i].status = "spawned"
    /\ \A j \in 1..Len(sends) :
            sends[j].viewer = sends[i].viewer => sends[j].status # "sending"
    /\ sends' = [sends EXCEPT ![i].status = "sending"]
    /\ UNCHANGED <<pushing, counted, call, charts, creations, sessions, lock, nextId, now, timers, handlers, webhooks,
                   overlap, emails, sockets, nextViewer>>

\* ... and then awaits the write, logs a failure, and ends, which releases
\* the socket.
SocketWrite(i, ok) ==
    /\ i \in 1..Len(sends)
    /\ sends[i].status = "sending"
    /\ sends' = [sends EXCEPT ![i].status = IF ok THEN "sent" ELSE "failed"]
    /\ UNCHANGED <<pushing, counted, call, charts, creations, sessions, lock, nextId, now, timers, handlers, webhooks,
                   overlap, emails, sockets, nextViewer>>

Next ==
    \/ \E email \in EmailAddresses : CreateSession(email)
    \/ \E id \in SessionIds : Expire(id)
    \/ \E h \in Handlers, id \in SessionIds : HandlerArrive(h, id)
    \/ \E h \in Handlers : HandlerLock(h)
    \/ \E h \in Handlers : HandlerRemove(h)
    \/ \E h \in Handlers, m \in Messages, plotOk \in BOOLEAN : HandlerUpdate(h, m, plotOk)
    \/ \E h \in Handlers : HandlerUnknown(h)
    \/ \E h \in Handlers : HandlerReturn(h)
    \/ \E i \in 1..(2 * MaxSessions), ok \in BOOLEAN : MailgunAnswer(i, ok)

\* The system without viewers: session creation and expiry, concurrent
\* webhook handlers and the email tasks.
Spec == Init /\ [][Next]_vars

\* The system with viewers: webhooks handled one at a time, viewers
\* connecting at any moment and the send tasks of every broadcast.
ViewerSpecHandlers == {CHOOSE h \in Handlers : TRUE}

NextViewers ==
    \/ \E email \in EmailAddresses : CreateSession(email)
    \/ \E id \in SessionIds : Expire(id)
    \/ \E h \in ViewerSpecHandlers, id \in SessionIds : HandlerArrive(h, id)
    \/ \E h \in ViewerSpecHandlers : HandlerLock(h)
    \/ \E h \in ViewerSpecHandlers : HandlerRemove(h)
    \/ \E h \in ViewerSpecHandlers, m \in Messages, plotOk \in BOOLEAN :
            HandlerUpdate(h, m, plotOk)
    \/ \E h \in ViewerSpecHandlers : HandlerUnknown(h)
    \/ \E h \in ViewerSpecHandlers : HandlerReturn(h)
    \/ \E id \in SessionIds : PushViewer(id)
    \/ \E i \in 1..(MaxWebhooks * MaxViewers), ok \in BOOLEAN : SocketSend(i, ok)

SpecViewers == Init /\ [][NextViewers]_vars

\* The system with the live chart: webhooks handled one at a time and chart
\* requests for the sessions they feed.
NextCharts ==
    \/ \E email \in EmailAddresses : CreateSession(email)
    \/ \E id \in SessionIds : Expire(id)
    \/ \E h \in ViewerSpecHandlers, id \in SessionIds : HandlerArrive(h, id)
    \/ \E h \in ViewerSpecHandlers : HandlerLock(h)
    \/ \E h \in ViewerSpecHandlers : HandlerRemove(h)
    \/ \E h \in ViewerSpecHandlers, m \in Messages, plotOk \in BOOLEAN :
            HandlerUpdate(h, m, plotOk)
    \/ \E h \in ViewerSpecHandlers : HandlerUnknown(h)
    \/ \E h \in ViewerSpecHandlers : HandlerReturn(h)
    \/ \E id \in SessionIds : ChartArrive(id)
    \/ \E plotOk \in BOOLEAN : GraphData(plotOk)

SpecCharts == Init /\ [][NextCharts]_vars

\* The system with its introspection endpoints: webhooks handled one at a
\* time, chart requests and session counts.
NextCount ==
    \/ NextCharts
    \/ CountSessions

SpecCount == Init /\ [][NextCount]_vars

\* The system with every kind of activity on a session: webhooks handled
\* one at a time, chart requests and viewers connecting.
NextActivity ==
    \/ NextCharts
    \/ \E id \in SessionIds : PushViewer(id)

SpecActivity == Init /\ [][NextActivity]_vars

\* The webhooks that start network tasks: a broadcast, a completion email
\* with a broadcast, an error email.
StalledMessages ==
    {Message("NEW_DATA", DataOne, None),
     Message("TEST_FINISHED", DataTwo, Some(ResultPositive)),
     Message("TEST_FINISHED", DataTwo, None)}

\* The same system when the network never answers: no email attempt and no
\* viewer send ever completes.
NextStalled ==
    \/ \E email \in EmailAddresses : CreateSession(email)
    \/ \E id \in SessionIds : Expire(id)
    \/ \E h \in ViewerSpecHandlers, id \in SessionIds : HandlerArrive(h, id)
    \/ \E h \in ViewerSpecHandlers : HandlerLock(h)
    \/ \E h \in ViewerSpecHandlers : HandlerRemove(h)
    \/ \E h \in ViewerSpecHandlers, m \in StalledMessages, plotOk \in {TRUE} :
            HandlerUpdate(h, m, plotOk)
    \/ \E h \in ViewerSpecHandlers : HandlerUnknown(h)
    \/ \E h \in ViewerSpecHandlers : HandlerReturn(h)
    \/ \E id \in SessionIds : PushViewer(id)
    \/ \E id \in SessionIds : ChartArrive(id)
    \/ \E plotOk \in BOOLEAN : GraphData(plotOk)

\* Its scheduling: the code that runs under the mutex goes on to release it,
\* and whoever waits for the mutex gets it if it is free again and again.
\* Nothing is assumed of the email and send tasks.
FairnessStalled ==
    /\ \A h \in ViewerSpecHandlers :
            /\ WF_vars(\/ HandlerRemove(h)
                       \/ HandlerUnknown(h)
                       \/ HandlerReturn(h)
                       \/ \E m \in StalledMessages, plotOk \in {TRUE} : HandlerUpdate(h, m, plotOk))
            /\ SF_vars(HandlerLock(h))
    /\ \A id \in SessionIds : SF_vars(Expire(id))
    /\ SF_vars(\E plotOk \in BOOLEAN : GraphData(plotOk))

SpecStalled == Init /\ [][NextStalled]_vars /\ FairnessStalled

\* The webhooks that broadcast.
BroadcastMessages ==
    {Message("NEW_DATA", DataOne, None),
     Message("NEW_DATA", DataTwo, None),
     Message("TEST_FINISHED", DataTwo, Some(ResultPositive))}

\* The system seen from the viewers: broadcasts and their send tasks, each
\* in its two steps.
NextSockets ==
    \/ \E email \in EmailAddresses : CreateSession(email)
    \/ \E id \in SessionIds : Expire(id)
    \/ \E h \in ViewerSpecHandlers, id \in SessionIds : HandlerArrive(h, id)
    \/ \E h \in ViewerSpecHandlers : HandlerLock(h)
    \/ \E h \in ViewerSpecHandlers : HandlerRemove(h)
    \/ \E h \in ViewerSpecHandlers, m \in BroadcastMessages, plotOk \in {TRUE} :
            HandlerUpdate(h, m, plotOk)
    \/ \E h \in ViewerSpecHandlers : HandlerUnknown(h)
    \/ \E h \in ViewerSpecHandlers : HandlerReturn(h)
    \/ \E id \in SessionIds : PushViewer(id)
    \/ \E i \in 1..(MaxWebhooks * MaxViewers) : SocketLock(i)
    \/ \E i \in 1..(MaxWebhooks * MaxViewers), ok \in BOOLEAN : SocketWrite(i, ok)

\* The viewer whose connection may stall for ever, and the scheduling of the
\* send tasks of all the others: a task whose socket is free gets it, and a
\* write on a live connection ends.
StalledViewer == 1

FairnessSockets ==
    \A i \in 1..(MaxWebhooks * MaxViewers) :
        /\ SF_vars(SocketLock(i) /\ sends[i].viewer # StalledViewer)
        /\ WF_vars(\E ok \in BOOLEAN : SocketWrite(i, ok) /\ sends[i].viewer # StalledViewer)

SpecSockets == Init /\ [][NextSockets]_vars /\ FairnessSockets

\* WebsocketMessage::try_from applied on its own, to the states a session
\* goes through: incomplete over up to two samples, on channels inside and
\* outside the line slots, and completed with a cached chart.
PayloadSamples == {TestSample(ch, value, 600) : ch \in {0, 7}, value \in {5, 9}}

PayloadData ==
    {TestData(samples, << >>) :
        samples \in {<< >>} \cup {<<a>> : a \in PayloadSamples}
                            \cup {<<a, b>> : a \in PayloadSamples, b \in PayloadSamples}}

PayloadStates ==
    {StateIncomplete(data) : data \in PayloadData}
    \cup {CompletedTest(overall, subgroups, GraphPng(data, TRUE).v) :
            overall \in {"Positive", "Negative"},
            subgroups \in {<< >>, <<SubgroupResult("IC", "Negative")>>},
            data \in {DataOne, DataTwo}}

InitPayload ==
    /\ InitSystem
    /\ call \in {Call("WebsocketMessage::try_from", [state |-> state, plot_ok |-> plotOk]) :
                    state \in PayloadStates, plotOk \in BOOLEAN}

TryFromCall ==
    /\ call.fn = "WebsocketMessage::try_from"
    /\ call.result = None
    /\ call' = [call EXCEPT !.result =
                    Some(WebsocketMessageFrom(call.arg.state, call.arg.plot_ok))]
    /\ UNCHANGED systemVars

NextPayload == TryFromCall

SpecPayload == InitPayload /\ [][NextPayload]_vars

\* State::update applied on its own: every state of PayloadStates, every
\* event with each payload, with and without a result.
UpdateMessages ==
    {Message(e, d, r) : e \in Events,
                        d \in {TestDataEmpty, DataOne, DataTwo, DataBadChannel},
                        r \in {None, Some(ResultPositive)}}

InitUpdate ==
    /\ InitSystem
    /\ call \in {Call("State::update",
                      [state |-> state, message |-> message, plot_ok |-> plotOk]) :
                    state \in PayloadStates, message \in UpdateMessages,
                    plotOk \in BOOLEAN}

UpdateCall ==
    /\ call.fn = "State::update"
    /\ call.result = None
    /\ call' = [call EXCEPT !.result =
                    Some(StateUpdate(call.arg.state, call.arg.message, call.arg.plot_ok))]
    /\ UNCHANGED systemVars

NextUpdate == UpdateCall

SpecUpdate == InitUpdate /\ [][NextUpdate]_vars

\* normalise_values_to_zero applied on its own, to the graphs to_graph
\* builds from up to three samples on two channels; the k-th sample is taken
\* at minute k.
GraphSampleValues == {3, 5, 9}

GraphSamples(k) ==
    {TestSample(ch, value, k * TicksPerMinute) : ch \in {0, 1}, value \in GraphSampleValues}

GraphInputs ==
    {ToGraph(TestData(samples, << >>)).v :
        samples \in {<< >>}
            \cup {<<a>> : a \in GraphSamples(1)}
            \cup {<<a, b>> : a \in GraphSamples(1), b \in GraphSamples(2)}
            \cup {<<a, b, c>> : a \in GraphSamples(1), b \in GraphSamples(2),
                                c \in GraphSamples(3)}}

InitNormalise ==
    /\ InitSystem
    /\ call \in {Call("normalise_values_to_zero", graph) : graph \in GraphInputs}

NormaliseCall ==
    /\ call.fn = "normalise_values_to_zero"
    /\ call.result = None
    /\ call' = [call EXCEPT !.result = Some(NormaliseValuesToZero(call.arg))]
    /\ UNCHANGED systemVars

NextNormalise == NormaliseCall

SpecNormalise == InitNormalise /\ [][NextNormalise]_vars

\* to_graph applied on its own, to up to three samples on the first slot,
\* the last slot and the first two channels past the slots; the k-th sample
\* is taken at minute k.
ChannelSamples(k) ==
    {TestSample(ch, value, k * TicksPerMinute) : ch \in {0, 6, 7, 8}, value \in {5, 9}}

ChannelInputs ==
    {TestData(samples, << >>) :
        samples \in {<< >>}
            \cup {<<a>> : a \in ChannelSamples(1)}
            \cup {<<a, b>> : a \in ChannelSamples(1), b \in ChannelSamples(2)}
            \cup {<<a, b, c>> : a \in ChannelSamples(1), b \in ChannelSamples(2),
                                c \in ChannelSamples(3)}}

InitToGraph ==
    /\ InitSystem
    /\ call \in {Call("to_graph", data) : data \in ChannelInputs}

ToGraphCall ==
    /\ call.fn = "to_graph"
    /\ call.result = None
    /\ call' = [call EXCEPT !.result = Some(ToGraph(call.arg))]
    /\ UNCHANGED systemVars

NextToGraph == ToGraphCall

SpecToGraph == InitToGraph /\ [][NextToGraph]_vars

\* The session all the traffic of the next system is about.
BusySessions == {1}

\* The system with its three kinds of lock: concurrent webhook handlers,
\* chart requests and expiry tasks on the registry mutex, viewers
\* registering and broadcasts on the mutex of a viewer list, send tasks on
\* the mutex of their socket.
NextLocks ==
    \/ CreateSession("a@example.org")
    \/ \E id \in SessionIds : Expire(id)
    \/ \E h \in Handlers, id \in BusySessions : HandlerArrive(h, id)
    \/ \E h \in Handlers : HandlerLock(h)
    \/ \E h \in Handlers : HandlerRemove(h)
    \/ \E h \in Handlers, m \in StalledMessages : HandlerUpdateLocking(h, m, TRUE)
    \/ \E h \in Handlers : HandlerUnknown(h)
    \/ \E h \in Handlers : HandlerReturn(h)
    \/ \E id \in BusySessions : ChartArrive(id)
    \/ \E plotOk \in BOOLEAN : GraphData(plotOk)
    \/ \E id \in BusySessions : PushLock(id)
    \/ \E id \in BusySessions : PushRelease(id)
    \/ \E i \in 1..(MaxWebhooks * MaxViewers) : SocketLock(i)
    \/ \E i \in 1..(MaxWebhooks * MaxViewers) : SocketWrite(i, TRUE)

\* Every thread that can take its next step for long enough takes it: a
\* handler, a chart request or an expiry task the registry mutex, a
\* registering viewer its return from push, a send task its socket and the
\* end of its write. With finitely many requests, a mutex that is free again
\* and again is in the end free for good, so weak fairness is enough.
FairnessLocks ==
    /\ \A h \in Handlers :
            WF_vars(\/ HandlerLock(h)
                    \/ HandlerRemove(h)
                    \/ HandlerUnknown(h)
                    \/ HandlerReturn(h)
                    \/ \E m \in StalledMessages : HandlerUpdateLocking(h, m, TRUE))
    /\ WF_vars(\E id \in SessionIds : Expire(id))
    /\ WF_vars(\E id \in BusySessions : PushRelease(id))
    /\ WF_vars(\E plotOk \in BOOLEAN : GraphData(plotOk))
    /\ \A i \in 1..(MaxWebhooks * MaxViewers) :
            WF_vars(SocketLock(i) \/ SocketWrite(i, TRUE))

SpecLocks == Init /\ [][NextLocks]_vars /\ FairnessLocks

\* The scheduling the runtime provides. Between taking the mutex and
\* returning, receive_data is straight-line code without an await, so a handler
\* that holds the mutex goes on to release it. The expiry task is a tokio task
\* that is scheduled after its sleep and then competes for the mutex: it gets
\* it if the mutex is free again and again.
Fairness ==
    /\ \A h \in Handlers :
            WF_vars(\/ HandlerRemove(h)
                    \/ HandlerUnknown(h)
                    \/ HandlerReturn(h)
                    \/ \E m \in Messages, plotOk \in BOOLEAN : HandlerUpdate(h, m, plotOk))
    /\ \A id \in SessionIds : SF_vars(Expire(id))

SpecFair == Init /\ [][Next]_vars /\ Fairness

\* ------------------------------------------------------------------------
\* Properties
\* ------------------------------------------------------------------------
\* A handler that has run its match and still holds the lock.
Done(h) == handlers[h].pc = "done"

\* ... and had found its session, so that State::update ran.
Processed(h) == Done(h) /\ handlers[h].session.some

EmailsFor(id) == {i \in 1..Len(emails) : emails[i].id = id}

SnapshotEvents == {"NEW_DATA", "DEVICE_READY", "TEST_STARTED"}

\* C1: after a NEW_DATA, DEVICE_READY or TEST_STARTED webhook for a session
\* found in the registry, the session is back in the registry in state
\* IncompleteTest and its data is exactly the data of that payload, whatever
\* the session held before; the webhook is answered with success.
C1_SnapshotReplacesData ==
    \A h \in Handlers :
        (Processed(h) /\ handlers[h].message.v.event \in SnapshotEvents)
        => /\ handlers[h].id \in DOMAIN sessions
           /\ sessions[handlers[h].id].state =
                [type |-> "IncompleteTest", data |-> handlers[h].message.v.test.data]
           /\ handlers[h].response = Some(ResponseReceived)

\* A second snapshot has replaced a first, different and non-empty one.
C1_Witness ==
    \E h \in Handlers :
        /\ Processed(h)
        /\ handlers[h].message.v.event = "NEW_DATA"
        /\ handlers[h].session.v.state.data = DataTwo
        /\ handlers[h].message.v.test.data = DataOne
        /\ sessions[handlers[h].id].state.data = DataOne

\* The ids for which a completion email was started, i.e. the sessions that
\* reached CompletedTest.
CompletedIds == {emails[i].id : i \in {j \in 1..Len(emails) : emails[j].kind = "notify"}}

\* The handler whose update produced the CompletedTest.
Completer(h) ==
    /\ Processed(h)
    /\ handlers[h].state.v.ok
    /\ handlers[h].state.v.v.type = "CompletedTest"

\* C2 as stated: a webhook handled after the session completed is answered
\* with a recoverable failure and the session is still stored as
\* CompletedTest.
C2_LateWebhookRecoverable ==
    \A h \in Handlers :
        (Done(h) /\ handlers[h].id \in CompletedIds /\ ~Completer(h))
        => /\ handlers[h].state.some
           /\ ~handlers[h].state.v.ok
           /\ handlers[h].state.v.err.kind = "UnexpectedMessage"
           /\ handlers[h].id \in DOMAIN sessions
           /\ sessions[handlers[h].id].state.type = "CompletedTest"

\* C2 amended: once a session has completed it is not in the registry, and
\* every later webhook for its id finds nothing, is answered "Unknown ID"
\* without State::update being run, and leaves the registry without it.
C2_LateWebhookUnknownId ==
    \A h \in Handlers :
        (Done(h) /\ handlers[h].id \in CompletedIds /\ ~Completer(h))
        => /\ ~handlers[h].session.some
           /\ ~handlers[h].state.some
           /\ handlers[h].response = Some(ResponseUnknownId)
           /\ handlers[h].id \notin DOMAIN sessions

C2_Witness ==
    \E h \in Handlers :
        /\ Done(h)
        /\ handlers[h].id \in CompletedIds
        /\ ~Completer(h)
        /\ handlers[h].response = Some(ResponseUnknownId)

\* C3: a TEST_FINISHED webhook without a result, for a session found in the
\* registry, fails with TestFinishedMissingResult, which carries no state;
\* the answer is a client error and the session is not in the registry.
C3_MissingResultDiscards ==
    \A h \in Handlers :
        (/\ Processed(h)
         /\ handlers[h].message.v.event = "TEST_FINISHED"
         /\ ~handlers[h].message.v.test.result.some)
        => /\ handlers[h].state.v = [ok |-> FALSE, err |-> [kind |-> "TestFinishedMissingResult"]]
           /\ handlers[h].response.v.status = "BAD_REQUEST"
           /\ handlers[h].id \notin DOMAIN sessions

C3_Witness ==
    \E h \in Handlers :
        /\ Processed(h)
        /\ handlers[h].message.v.event = "TEST_FINISHED"
        /\ ~handlers[h].message.v.test.result.some
        /\ handlers[h].session.v.state.data = DataOne
        /\ handlers[h].id \notin DOMAIN sessions

Finished(h) == handlers[h].pc \in {"done", "replied"}

\* Between taking the registry lock and returning.
InCriticalSection(h) == handlers[h].pc \in {"locked", "removed", "done"}

\* C4 as stated: of two webhooks for one id handled at the same time, one
\* of which was answered with success, the other was answered "Unknown ID".
C4_ExactlyOneSucceeds ==
    \A p \in overlap :
        ((\A h \in p : Finished(h))
            /\ (\E h \in p : handlers[h].response = Some(ResponseReceived)))
        => \E h \in p : \E g \in p \ {h} :
                /\ handlers[h].response = Some(ResponseReceived)
                /\ handlers[g].response = Some(ResponseUnknownId)

\* C4 amended: two webhooks for one id handled at the same time are
\* serialised by the registry lock: never are both between lock and return;
\* each is answered "Unknown ID" exactly when it found no session under the
\* lock, so both succeed when both are accepted; and after an accepted
\* snapshot the stored data is that webhook's payload alone, not a merge.
C4_Serialised ==
    \A p \in overlap :
        /\ Cardinality({h \in p : InCriticalSection(h)}) <= 1
        /\ \A h \in p :
            Done(h) =>
                /\ (handlers[h].response = Some(ResponseUnknownId))
                        <=> ~handlers[h].session.some
                /\ (Processed(h) /\ handlers[h].state.v.ok
                        /\ handlers[h].state.v.v.type = "IncompleteTest")
                    => /\ handlers[h].id \in DOMAIN sessions
                       /\ sessions[handlers[h].id].state.data
                            = handlers[h].message.v.test.data

\* Both of two overlapping webhooks were answered with success, the second
\* having replaced the data the first had stored.
C4_Witness ==
    \E p \in overlap :
        /\ \A h \in p : Finished(h) /\ handlers[h].response = Some(ResponseReceived)
        /\ \E h \in p :
            /\ Processed(h)
            /\ handlers[h].message.v.event = "NEW_DATA"
            /\ handlers[h].session.v.state.data = DataTwo
            /\ sessions[handlers[h].id].state.data = DataOne

\* C5: a handler is between lock and return only while it owns the registry
\* mutex, so at most one is; the session a handler has removed and not yet
\* put back or finalized is not in the registry; and while a handler owns
\* the mutex no step of anything else (another handler, the expiry task,
\* create) changes the registry.
C5_HoldsExclusively ==
    /\ \A h \in Handlers : InCriticalSection(h) => lock = Some(h)
    /\ \A h \in Handlers : \A g \in Handlers \ {h} :
            ~(InCriticalSection(h) /\ InCriticalSection(g))
    /\ \A h \in Handlers :
            (handlers[h].pc = "removed" /\ handlers[h].session.some)
            => /\ handlers[h].id \notin DOMAIN sessions
               /\ \A g \in Handlers \ {h} : handlers[g].session = None

C5_OnlyHolderChangesRegistry ==
    \A h \in Handlers :
        lock = Some(h) => (sessions' = sessions \/ handlers'[h] # handlers[h])

C6_CompletionFinalises ==
    /\ \A h \in Handlers :
            Completer(h) => /\ handlers[h].response = Some(ResponseReceived)
                            /\ handlers[h].message.v.event = "TEST_FINISHED"
                            /\ handlers[h].message.v.test.result.some
                            /\ handlers[h].id \in CompletedIds
    /\ \A id \in CompletedIds :
        /\ id \notin DOMAIN sessions
        /\ Cardinality({i \in EmailsFor(id) : emails[i].kind = "notify"}) = 1
        /\ \A i \in EmailsFor(id) :
            /\ emails[i].recipient = creations[id]
            /\ emails[i].kind = "notify_error"
                => \E j \in EmailsFor(id) :
                        j < i /\ emails[j].kind = "notify" /\ emails[j].status = "failed"

\* A session created for the second address has just been completed.
C6_Witness ==
    \E h \in Handlers :
        /\ Completer(h)
        /\ handlers[h].session.v.state.data = DataOne
        /\ creations[handlers[h].id] = "b@example.org"
        /\ \E i \in EmailsFor(handlers[h].id) :
                emails[i].kind = "notify" /\ emails[i].recipient = "b@example.org"

\* C7: ALREADY_TESTING or CONTINUE_TEST for a session found in the registry
\* fails with UnexpectedMessage carrying the state the session had; the
\* answer is a client error, the session is back in the registry exactly as
\* it was removed and stored under its own id, and no email exists for it.
C7_UnexpectedEventRestores ==
    \A h \in Handlers :
        (Processed(h)
            /\ handlers[h].message.v.event \in {"ALREADY_TESTING", "CONTINUE_TEST"})
        => /\ handlers[h].state.v =
                [ok |-> FALSE,
                 err |-> [kind |-> "UnexpectedMessage",
                          state |-> handlers[h].session.v.state,
                          message |-> handlers[h].message.v]]
           /\ handlers[h].response.v.status = "BAD_REQUEST"
           /\ handlers[h].id \in DOMAIN sessions
           /\ sessions[handlers[h].id] = handlers[h].session.v
           /\ sessions[handlers[h].id].id = handlers[h].id
           /\ sessions[handlers[h].id].email_to_notify = creations[handlers[h].id]
           /\ EmailsFor(handlers[h].id) = {}

C7_Witness ==
    \E h \in Handlers :
        /\ Processed(h)
        /\ handlers[h].message.v.event = "CONTINUE_TEST"
        /\ handlers[h].session.v.state.data = DataTwo
        /\ sessions[handlers[h].id].state.data = DataTwo

\* C8: a failed update whose error is TestFinishedMissingResult,
\* TooManyChannels or Plotting leaves the session out of the registry, with
\* exactly one email for it, an error notification to the address given at
\* creation; a failed update whose error carries a state (UnexpectedMessage)
\* leaves the session in the registry and no email for it; both are answered
\* with a client error.
C8_FailureHandling ==
    \A h \in Handlers :
        (Processed(h) /\ ~handlers[h].state.v.ok)
        => /\ handlers[h].response.v.status = "BAD_REQUEST"
           /\ handlers[h].state.v.err.kind \in
                {"TestFinishedMissingResult", "TooManyChannels", "Plotting",
                 "UnexpectedMessage"}
           /\ handlers[h].state.v.err.kind = "UnexpectedMessage"
                => /\ handlers[h].id \in DOMAIN sessions
                   /\ EmailsFor(handlers[h].id) = {}
           /\ handlers[h].state.v.err.kind # "UnexpectedMessage"
                => /\ handlers[h].id \notin DOMAIN sessions
                   /\ Cardinality(EmailsFor(handlers[h].id)) = 1
                   /\ \A i \in EmailsFor(handlers[h].id) :
                        /\ emails[i].kind = "notify_error"
                        /\ emails[i].recipient = creations[handlers[h].id]

\* The chart for a TEST_FINISHED with a result could not be built.
C8_Witness ==
    \E h \in Handlers :
        /\ Processed(h)
        /\ handlers[h].message.v.event = "TEST_FINISHED"
        /\ handlers[h].message.v.test.result.some
        /\ ~handlers[h].state.v.ok
        /\ handlers[h].state.v.err.kind = "TooManyChannels"
        /\ \E i \in EmailsFor(handlers[h].id) : emails[i].kind = "notify_error"

\* C9 as stated: every sample stored in the registry has a channel index
\* below the number of line slots, and a webhook whose payload has a sample
\* at or above it is answered with a client error.
HasBadChannel(data) ==
    \E i \in 1..Len(data.samples) : data.samples[i].starting_channel >= Len(Palette)

C9_StoredChannelsInRange ==
    /\ \A id \in DOMAIN sessions : ~HasBadChannel(sessions[id].state.data)
    /\ \A h \in Handlers :
            (Processed(h) /\ HasBadChannel(handlers[h].message.v.test.data))
            => handlers[h].response.v.status = "BAD_REQUEST"

\* The step in which handler h runs State::update and its match.
UpdateStep(h) ==
    /\ handlers[h].pc = "removed"
    /\ handlers'[h].pc = "done"
    /\ handlers'[h].state.some

\* The send tasks a step spawns.
NewSends == SubSeq(sends', Len(sends) + 1, Len(sends'))

\* One send task for each socket of the list, in list order.
Broadcast(websockets, payload) ==
    [i \in 1..Len(websockets) |->
        [viewer |-> websockets[i], message |-> payload, status |-> "spawned"]]

\* C10 as stated: an update that succeeds, or fails with UnexpectedMessage,
\* spawns one send of the new or retained state to each viewer of the
\* session (here: whenever the payload of that state can be built).
C10_EveryTransitionBroadcast_Step ==
    \A h \in Handlers :
        (UpdateStep(h)
            /\ (handlers'[h].state.v.ok
                    \/ handlers'[h].state.v.err.kind = "UnexpectedMessage"))
        => LET state == IF handlers'[h].state.v.ok THEN handlers'[h].state.v.v
                        ELSE handlers'[h].state.v.err.state
               payload == WebsocketMessageFrom(state, handlers'[h].plot_ok.v)
           IN payload.ok => NewSends = Broadcast(sockets[handlers[h].id], payload.v)

C10_Broadcasts_Step ==
    /\ Len(sends') >= Len(sends)
    /\ \A i \in 1..Len(sends) : [sends'[i] EXCEPT !.status = sends[i].status] = sends[i]
    /\ Len(sends') # Len(sends) => \E h \in Handlers : UpdateStep(h)
    /\ \A h \in Handlers :
        UpdateStep(h) =>
            LET result == handlers'[h].state.v
                message == handlers'[h].message.v
                viewers == sockets[handlers[h].id]
            IN CASE result.ok /\ result.v.type = "CompletedTest" ->
                        NewSends = Broadcast(viewers,
                            [graph_png_base64 |-> Some([base64 |-> result.v.graph_png]),
                             results |-> Some([overall |-> result.v.overall,
                                               subgroup_results |->
                                                    result.v.subgroup_results])])
                 [] result.ok /\ result.v.type # "CompletedTest"
                        /\ message.event = "NEW_DATA" ->
                        IF Len(message.test.data.samples) = 0
                        THEN NewSends = Broadcast(viewers,
                                [graph_png_base64 |-> None, results |-> None])
                        ELSE IF HasBadChannel(message.test.data)
                                \/ ~handlers'[h].plot_ok.v
                        THEN NewSends = << >>
                        ELSE NewSends = Broadcast(viewers,
                                [graph_png_base64 |->
                                    Some([base64 |-> GraphPng(message.test.data, TRUE).v]),
                                 results |-> None])
                 [] OTHER -> NewSends = << >>

CreateStep == nextId' = nextId + 1

\* C11: a create stores, under an id no earlier create returned, a session in
\* state IncompleteTest with no samples and no temperature samples, whose id
\* field is its key and whose address is the one given; no existing entry is
\* overwritten or touched and the number of entries grows by exactly one.
C11_CreateStores_Step ==
    CreateStep =>
        LET id == nextId
        IN /\ id \notin DOMAIN creations
           /\ id \notin DOMAIN sessions
           /\ SessionsGet(sessions', id).some
           /\ SessionsGet(sessions', id).v.state = IncompleteTest(TestDataEmpty)
           /\ SessionsGet(sessions', id).v.state.data.samples = << >>
           /\ SessionsGet(sessions', id).v.state.data.temperature_samples = << >>
           /\ SessionsGet(sessions', id).v.id = id
           /\ SessionsGet(sessions', id).v.email_to_notify = creations'[id]
           /\ DOMAIN creations' = DOMAIN creations \cup {id}
           /\ \A x \in DOMAIN sessions : SessionsGet(sessions', x) = Some(sessions[x])
           /\ Cardinality(DOMAIN sessions') = Cardinality(DOMAIN sessions) + 1

C11_CreateStores == [][C11_CreateStores_Step]_vars

\* A second session has been created for another address while the first,
\* with data received, is still in the registry.
C11_Witness ==
    /\ nextId = 3
    /\ DOMAIN sessions = {1, 2}
    /\ sessions[1].state.data = DataOne
    /\ sessions[1].email_to_notify = "a@example.org"
    /\ sessions[2].state = StateStarted
    /\ sessions[2].email_to_notify = "b@example.org"

\* C12: every created session is eventually absent from the registry and
\* stays absent, and once its expiry task has run it is absent for good,
\* whether or not a webhook ever arrives for it.
C12_EventuallyExpired ==
    /\ \A id \in SessionIds : [](id \in DOMAIN timers => <>[](id \notin DOMAIN sessions))
    /\ [](\A id \in DOMAIN timers : timers[id] = "fired" => id \notin DOMAIN sessions)

\* A session that never received a webhook has been removed by its timer
\* while another one is still waiting for its own.
C12_Witness ==
    /\ webhooks = 0
    /\ DOMAIN timers = {1, 2}
    /\ timers[1] = "fired"
    /\ 1 \notin DOMAIN sessions
    /\ 2 \in DOMAIN sessions

\* The step in which the expiry task of id runs.
ExpireStep(id) ==
    /\ id \in DOMAIN timers
    /\ timers[id] = "sleeping"
    /\ timers'[id] = "fired"

\* C13: the expiry task of an id that is no longer in the registry leaves
\* the registry as it is; no expiry task starts an email or a viewer send;
\* and the expiry task of one id leaves the entry of every other id as it is.
C13_LateExpiryFrame_Step ==
    \A id \in SessionIds :
        ExpireStep(id) =>
            /\ id \notin DOMAIN sessions => sessions' = sessions
            /\ emails' = emails
            /\ sends' = sends
            /\ sockets' = sockets
            /\ \A y \in SessionIds \ {id} :
                    SessionsGet(sessions', y) = SessionsGet(sessions, y)

C13_LateExpiryFrame == [][C13_LateExpiryFrame_Step]_vars

\* The timer of a session that had been completed earlier has fired while
\* another session, with data and a viewer, is still in the registry.
C13_Witness ==
    \E id \in DOMAIN timers :
        /\ timers[id] = "fired"
        /\ \E i \in EmailsFor(id) : emails[i].kind = "notify"
        /\ \E y \in DOMAIN sessions :
                /\ y # id
                /\ Len(sessions[y].state.data.samples) > 0
                /\ Len(sockets[y]) > 0

\* The steps of a handler whose id is not in the registry: the remove that
\* finds nothing and the answer.
RemoveMissStep(h) ==
    /\ handlers[h].pc = "locked"
    /\ handlers'[h].pc = "removed"
    /\ handlers[h].id \notin DOMAIN sessions

UnknownStep(h) ==
    /\ handlers[h].pc = "removed"
    /\ ~handlers[h].session.some
    /\ handlers'[h].pc = "done"

\* C14: a webhook for an id absent from the registry is answered with
\* "Unknown ID"; the registry is unchanged by its handler (no entry for the
\* id, no other entry touched), State::update is not run, and no email and
\* no viewer send is started.
C14_UnknownIdFrame_Step ==
    \A h \in Handlers :
        /\ RemoveMissStep(h) =>
                /\ ~handlers'[h].session.some
                /\ sessions' = sessions
                /\ emails' = emails
                /\ sends' = sends
        /\ UnknownStep(h) =>
                /\ handlers'[h].response = Some(ResponseUnknownId)
                /\ handlers'[h].state = None
                /\ handlers'[h].message = None
                /\ sessions' = sessions
                /\ handlers[h].id \notin DOMAIN sessions'
                /\ emails' = emails
                /\ sends' = sends

C14_UnknownIdFrame ==
    /\ [](\A h \in Handlers :
            (Done(h) /\ ~handlers[h].session.some)
                => handlers[h].response = Some(ResponseUnknownId))
    /\ [][C14_UnknownIdFrame_Step]_vars

\* A webhook for an id that was never created has been answered while
\* another session, with data and a viewer, is in the registry.
C14_Witness ==
    \E h \in Handlers :
        /\ Done(h)
        /\ handlers[h].id \notin DOMAIN timers
        /\ handlers[h].response = Some(ResponseUnknownId)
        /\ \E y \in DOMAIN sessions :
                Len(sessions[y].state.data.samples) > 0 /\ Len(sockets[y]) > 0

\* The email attempts of a kind started for a session.
EmailsOfKind(id, kind) == {i \in EmailsFor(id) : emails[i].kind = kind}

\* C15: a session has at most two email attempts and at most one completion
\* attempt. A failed completion attempt is followed by exactly one error
\* attempt, to the same recipient, and these two are all the attempts of the
\* session whatever the answer to the second; a completion attempt that is
\* pending or has succeeded has no error attempt beside it.
C15_EmailAttempts ==
    \A id \in SessionIds :
        /\ Cardinality(EmailsFor(id)) <= 2
        /\ Cardinality(EmailsOfKind(id, "notify")) <= 1
        /\ \A i \in EmailsOfKind(id, "notify") :
            /\ emails[i].status = "failed" =>
                    \E j \in EmailsOfKind(id, "notify_error") :
                        /\ j > i
                        /\ emails[j].recipient = emails[i].recipient
                        /\ emails[j].recipient = creations[id]
                        /\ EmailsFor(id) = {i, j}
            /\ emails[i].status \in {"pending", "ok"} =>
                    EmailsFor(id) = {i}

\* The completion email of a session failed and so did the error email
\* that followed it, while the completion email of another session went out.
C15_Witness ==
    \E id \in SessionIds, other \in SessionIds :
        /\ id # other
        /\ \E i \in EmailsOfKind(id, "notify"), j \in EmailsOfKind(id, "notify_error") :
                emails[i].status = "failed" /\ emails[j].status = "failed"
        /\ \E i \in EmailsOfKind(other, "notify") : emails[i].status = "ok"

\* The network tasks that have not completed.
PendingEmails == {i \in 1..Len(emails) : emails[i].status = "pending"}
SpawnedSends == {i \in 1..Len(sends) : sends[i].status = "spawned"}

\* C16: the mutex is only ever held by a handler inside its straight-line
\* section, never by an email or send task; and while emails and viewer sends
\* stay uncompleted for ever, the mutex is free again and again (so a session
\* can be created), no webhook stays unanswered (a handler in flight stays so
\* until it has replied), no chart request stays unanswered and no expiry
\* task stays asleep.
C16_NetworkNeverBlocksRegistry ==
    /\ [](lock.some => /\ lock.v \in Handlers
                       /\ handlers[lock.v].pc \in {"locked", "removed", "done"})
    /\ []<>(lock = None)
    /\ \A h \in ViewerSpecHandlers : []<>(~InFlight(h))
    /\ []<>(charts.pc # "waiting")
    /\ \A id \in SessionIds : []<>(id \in DOMAIN timers => timers[id] = "fired")

\* With a completion email unanswered and a viewer send uncompleted, a
\* later webhook for another session and a chart request have been answered
\* and the expiry task of the completed session has run.
C16_Witness ==
    /\ PendingEmails # {}
    /\ SpawnedSends # {}
    /\ \E h \in Handlers, i \in PendingEmails :
            /\ handlers[h].pc = "replied"
            /\ handlers[h].id # emails[i].id
            /\ handlers[h].response = Some(ResponseReceived)
            /\ timers[emails[i].id] = "fired"
    /\ charts.pc = "replied"

\* A send task that has ended.
SendEnded(i) == sends[i].status \in {"sent", "failed"}

\* C17: a step of one send task changes the status of that task only, an
\* ended task stays as it ended, and a failure starts no further task (no
\* retry); and whatever happens to the sends to one viewer, which may fail
\* or never complete, every send to any other viewer ends.
C17_IndependentSends_Step ==
    /\ \A i \in 1..Len(sends) :
            /\ Len(sends') >= Len(sends)
            /\ [sends'[i] EXCEPT !.status = sends[i].status] = sends[i]
            /\ SendEnded(i) => sends'[i] = sends[i]
    /\ (\E i \in 1..Len(sends) : sends'[i].status # sends[i].status)
            => /\ Len(sends') = Len(sends)
               /\ Cardinality({i \in 1..Len(sends) : sends'[i] # sends[i]}) = 1

C17_IndependentSends ==
    /\ [][C17_IndependentSends_Step]_vars
    /\ []<>(\A i \in 1..Len(sends) : sends[i].viewer # StalledViewer => SendEnded(i))

\* Two broadcasts to two viewers: the first send to one viewer is stuck in
\* its write and the next one waits behind it, while of the sends to the
\* other viewer one has failed and the next has gone out.
C17_Witness ==
    /\ Len(sends) = 4
    /\ sends[1].viewer = StalledViewer /\ sends[1].status = "sending"
    /\ sends[2].viewer # StalledViewer /\ sends[2].status = "failed"
    /\ sends[3].viewer = StalledViewer /\ sends[3].status = "spawned"
    /\ sends[4].viewer # StalledViewer /\ sends[4].status = "sent"
    /\ sends[1].message = sends[2].message
    /\ sends[3].message = sends[4].message

\* The step in which graph_data answers.
ChartStep == charts.pc = "waiting" /\ charts'.pc = "replied"

\* The session holds nothing to draw.
NoDataYet(session) ==
    /\ session.some
    /\ session.v.state.type = "IncompleteTest"
    /\ Len(session.v.state.data.samples) = 0

\* graph_data leaves everything but its own answer as it was.
ChartFrame ==
    /\ sessions' = sessions
    /\ UNCHANGED <<pushing, counted, call, lock, nextId, now, creations, timers, handlers, webhooks, overlap,
                   emails, sockets, nextViewer, sends>>

\* C19 as stated: unknown id exactly for an absent id, "no data yet" exactly
\* for an incomplete session without samples, otherwise the chart of the
\* stored data; nothing but the answer changes.
C19_ChartOrSignal_Step ==
    ChartStep =>
        LET session == SessionsGet(sessions, charts.id)
            response == charts'.response.v
            chart == CurrentGraphPng(session.v.state, TRUE)
        IN /\ response = ChartUnknownId <=> ~session.some
           /\ response = ChartNoData <=> NoDataYet(session)
           /\ (session.some /\ ~NoDataYet(session)) =>
                    /\ response.status = "OK"
                    /\ chart.ok => response = ChartPng(chart.v.v)
           /\ ChartFrame

C19_ChartOrSignal == [][C19_ChartOrSignal_Step]_vars

\* C19, amended: as above, except that for a session with samples the
\* answer is the chart of the stored data only if it can be drawn; if a
\* stored sample has a channel outside the line slots the answer is the
\* server error, and so it is if drawing fails.
C19_ChartSignalOrError_Step ==
    ChartStep =>
        LET session == SessionsGet(sessions, charts.id)
            response == charts'.response.v
            chart == CurrentGraphPng(session.v.state, TRUE)
        IN /\ response = ChartUnknownId <=> ~session.some
           /\ response = ChartNoData <=> NoDataYet(session)
           /\ (session.some /\ ~NoDataYet(session)) =>
                    IF chart.ok
                    THEN response \in {ChartPng(chart.v.v), ChartError}
                    ELSE response = ChartError
           /\ ChartFrame

C19_ChartSignalOrError == [][C19_ChartSignalOrError_Step]_vars

\* A chart request for a session that holds a sample on a channel outside
\* the line slots has been answered with the server error.
C19_Witness ==
    /\ charts.pc = "replied"
    /\ charts.id \in DOMAIN sessions
    /\ sessions[charts.id].state.data = DataBadChannel
    /\ charts.response = Some(ChartError)

\* C18: a payload built for a state has results exactly when the state is
\* CompletedTest and has no chart exactly when the state is IncompleteTest
\* without samples, so both are missing only for a state without samples; the
\* payload of a CompletedTest carries its cached chart, encoded, and the
\* overall and subgroup results of the state. No payload is built only for
\* an IncompleteTest with samples whose chart cannot be drawn.
C18_PayloadShape ==
    (call.fn = "WebsocketMessage::try_from" /\ call.result.some) =>
        LET state == call.arg.state
            built == call.result.v
        IN /\ built.ok =>
                /\ built.v.results.some <=> state.type = "CompletedTest"
                /\ ~built.v.graph_png_base64.some <=>
                        (state.type = "IncompleteTest" /\ Len(state.data.samples) = 0)
                /\ (~built.v.results.some /\ ~built.v.graph_png_base64.some)
                        => Len(state.data.samples) = 0
                /\ state.type = "CompletedTest" =>
                        /\ built.v.graph_png_base64 = Some(Base64Encode(state.graph_png))
                        /\ built.v.results.v.overall = state.overall
                        /\ built.v.results.v.subgroup_results = state.subgroup_results
           /\ ~built.ok =>
                /\ state.type = "IncompleteTest"
                /\ Len(state.data.samples) > 0
                /\ ~GraphPng(state.data, call.arg.plot_ok).ok

\* The payload of a completed test with subgroup results has been built.
C18_Witness ==
    /\ call.fn = "WebsocketMessage::try_from"
    /\ call.arg.state.type = "CompletedTest"
    /\ Len(call.arg.state.subgroup_results) > 0
    /\ call.result.some
    /\ call.result.v.ok
    /\ call.result.v.v.results.some
    /\ call.result.v.v.graph_png_base64.some

\* The values of a line and of a graph, as sets.
LineValueSet(line) == {line.points[j][2] : j \in 1..Len(line.points)}
GraphValueSet(graph) == UNION {LineValueSet(graph.lines[i]) : i \in 1..Len(graph.lines)}

\* C20: the normalised graph has the same lines in the same order, each
\* with its colour and with its points in the same order at the same times;
\* every value is the original one less the least value of its own line;
\* min_value is 0, no value is negative, every line that has points has a
\* point at 0, and max_value is the greatest normalised value, 0 if there is
\* none; the time range is kept.
C20_NormalisedPerLine ==
    (call.fn = "normalise_values_to_zero" /\ call.result.some) =>
        LET graph == call.arg
            normalised == call.result.v
        IN /\ Len(normalised.lines) = Len(graph.lines)
           /\ \A i \in 1..Len(graph.lines) :
                LET line == graph.lines[i]
                    out == normalised.lines[i]
                IN /\ out.color = line.color
                   /\ Len(out.points) = Len(line.points)
                   /\ \A j \in 1..Len(line.points) :
                        /\ out.points[j][1] = line.points[j][1]
                        /\ out.points[j][2] >= 0
                        /\ \E m \in LineValueSet(line) :
                                /\ \A v \in LineValueSet(line) : m <= v
                                /\ out.points[j][2] = line.points[j][2] - m
                   /\ Len(line.points) > 0 => 0 \in LineValueSet(out)
           /\ normalised.min_value = 0
           /\ IF GraphValueSet(normalised) = {}
              THEN normalised.max_value = 0
              ELSE /\ normalised.max_value \in GraphValueSet(normalised)
                   /\ \A v \in GraphValueSet(normalised) : v <= normalised.max_value
           /\ normalised.min_time = graph.min_time
           /\ normalised.max_time = graph.max_time

\* The line with the values 5, 9, 5 has become 0, 4, 0.
C20_Witness ==
    /\ call.fn = "normalise_values_to_zero"
    /\ call.result.some
    /\ PointValues(call.arg.lines[1]) = <<5, 9, 5>>
    /\ PointValues(call.result.v.lines[1]) = <<0, 4, 0>>
    /\ call.result.v.max_value = 4

\* The points the samples of one channel make, in input order.
RECURSIVE PointsOfChannel(_, _)
PointsOfChannel(samples, ch) ==
    IF Len(samples) = 0 THEN << >>
    ELSE IF samples[1].starting_channel = ch
         THEN <<<<Minutes(samples[1].sampling_time, 600), samples[1].first_channel_result>>>>
                \o PointsOfChannel(Tail(samples), ch)
         ELSE PointsOfChannel(Tail(samples), ch)

RECURSIVE SumOfLengths(_)
SumOfLengths(lines) ==
    IF Len(lines) = 0 THEN 0 ELSE Len(lines[1].points) + SumOfLengths(Tail(lines))

\* C21: to_graph fails, with TooManyChannels, exactly when some sample has a
\* channel index of 7 or more; otherwise it gives 7 lines, line c + 1 holding
\* the samples of channel c, each once and in input order, so that the lines
\* together hold as many points as there are samples.
C21_ChannelBuckets ==
    (call.fn = "to_graph" /\ call.result.some) =>
        LET samples == call.arg.samples
            graph == call.result.v
        IN /\ ~graph.ok <=> \E i \in 1..Len(samples) : samples[i].starting_channel >= 7
           /\ ~graph.ok => graph.err.kind = "TooManyChannels"
           /\ graph.ok =>
                /\ Len(graph.v.lines) = 7
                /\ \A c \in 0..6 :
                        graph.v.lines[c + 1].points = PointsOfChannel(samples, c)
                /\ SumOfLengths(graph.v.lines) = Len(samples)

\* Three samples, two on the first slot around one on the last, have been
\* bucketed.
C21_Witness ==
    /\ call.fn = "to_graph"
    /\ call.result.some
    /\ call.result.v.ok
    /\ Len(call.result.v.v.lines[1].points) = 2
    /\ Len(call.result.v.v.lines[7].points) = 1
    /\ call.arg.samples[2].starting_channel = 6

\* The ids that left the registry for good: the expiry task found the
\* session, a webhook completed the test, or a webhook failed beyond recovery.
Expired(id) == id \in DOMAIN timers /\ timers[id] = "fired"

CompletedByWebhook(id) ==
    \E i \in 1..Len(emails) : emails[i].kind = "notify" /\ emails[i].id = id

DiscardedByWebhook(id) ==
    \E i \in 1..Len(emails) : emails[i].kind = "notify_error" /\ emails[i].id = id

LiveIds ==
    {id \in DOMAIN creations :
        ~(Expired(id) \/ CompletedByWebhook(id) \/ DiscardedByWebhook(id))}

\* C22: whenever the registry can be read (its lock is free) it holds
\* exactly the sessions that were created and have not expired, completed
\* or failed beyond recovery, and the answer of count_sessions is their
\* number at the moment it is computed.
C22_CountIsLiveSessions ==
    /\ [](lock = None => DOMAIN sessions = LiveIds)
    /\ [][counted' # counted => counted' = Some(Cardinality(LiveIds))]_vars

C22_Witness ==
    /\ counted = Some(1)
    /\ Cardinality(DOMAIN creations) = 2
    /\ \E id \in DOMAIN creations : CompletedByWebhook(id)
    /\ lock = None

\* C23: State::update applied to a CompletedTest fails, whatever the event
\* and whether or not the payload has a result, with UnexpectedMessage
\* carrying a CompletedTest of the same overall result, the same subgroup
\* results in the same order and the same chart bytes; no viewer is told.
C23_CompletedRejectsEveryEvent ==
    (/\ call.fn = "State::update"
     /\ call.result.some
     /\ call.arg.state.type = "CompletedTest") =>
        LET updated == call.result.v
        IN /\ ~updated.result.ok
           /\ updated.result.err.kind = "UnexpectedMessage"
           /\ updated.result.err.state.type = "CompletedTest"
           /\ updated.result.err.state.overall = call.arg.state.overall
           /\ updated.result.err.state.subgroup_results = call.arg.state.subgroup_results
           /\ updated.result.err.state.graph_png = call.arg.state.graph_png
           /\ updated.result.err.message = call.arg.message
           /\ updated.notified = None

C23_Witness ==
    /\ call.fn = "State::update"
    /\ call.result.some
    /\ call.arg.state.type = "CompletedTest"
    /\ call.arg.message.event = "TEST_STARTED"
    /\ call.arg.message.test.result.some
    /\ Len(call.arg.state.subgroup_results) = 1
    /\ ~call.result.v.result.ok

\* C24: on TEST_FINISHED with a result, what State::update returns for an
\* incomplete test depends on the payload alone: the chart is the one drawn
\* from the payload's data, the results are the payload's result, and any
\* other held data gives the same outcome.
C24_CompletionFromPayloadOnly ==
    (/\ call.fn = "State::update"
     /\ call.result.some
     /\ call.arg.state.type = "IncompleteTest"
     /\ call.arg.message.event = "TEST_FINISHED"
     /\ call.arg.message.test.result.some) =>
        LET updated == call.result.v
            message == call.arg.message
            chart == GraphPng(message.test.data, call.arg.plot_ok)
        IN /\ updated.result.ok <=> chart.ok
           /\ updated.result.ok =>
                /\ updated.result.v.type = "CompletedTest"
                /\ updated.result.v.graph_png = chart.v
                /\ updated.result.v.overall = message.test.result.v.detection_result
                /\ updated.result.v.subgroup_results
                        = message.test.result.v.subgroup_results
           /\ \A held \in PayloadData :
                StateUpdate(StateIncomplete(held), message, call.arg.plot_ok) = updated

C24_Witness ==
    /\ call.fn = "State::update"
    /\ call.result.some
    /\ call.arg.state.type = "IncompleteTest"
    /\ Len(call.arg.state.data.samples) = 2
    /\ call.arg.state.data.samples[1].starting_channel = 7
    /\ call.arg.message = Message("TEST_FINISHED", DataOne, Some(ResultPositive))
    /\ call.result.v.result.ok
    /\ call.result.v.result.v.graph_png = GraphPng(DataOne, TRUE).v

\* C25: every session stored in the registry is an IncompleteTest, and so
\* is every session a webhook handler took out of it: a completed test is
\* never put back, so no request ever finds one.
C25_RegistryHoldsIncompleteOnly ==
    /\ \A id \in DOMAIN sessions : sessions[id].state.type = "IncompleteTest"
    /\ \A h \in Handlers :
            handlers[h].session.some =>
                handlers[h].session.v.state.type = "IncompleteTest"

C25_Witness ==
    /\ lock = None
    /\ \E id \in DOMAIN creations : CompletedByWebhook(id) /\ id \notin DOMAIN sessions
    /\ \E id \in DOMAIN sessions : Len(sessions[id].state.data.samples) > 0

RemovedForGood(id) == Expired(id) \/ CompletedByWebhook(id) \/ DiscardedByWebhook(id)

\* C26: an id that expired, completed or failed beyond recovery is absent
\* from the registry from then on, in every interleaving of the handlers,
\* the expiry tasks and create: being removed for good is permanent, and no
\* reinsert or create puts an entry under such an id.
C26_RemovedIdsStayAbsent ==
    /\ [](\A id \in SessionIds : RemovedForGood(id) => id \notin DOMAIN sessions)
    /\ [][\A id \in SessionIds : RemovedForGood(id) => RemovedForGood(id)']_vars

C26_Witness ==
    \E id \in SessionIds :
        /\ Expired(id)
        /\ id \notin DOMAIN sessions
        /\ nextId > MaxSessions
        /\ \E h \in Handlers :
                /\ handlers[h].pc = "replied"
                /\ handlers[h].id = id
                /\ handlers[h].response = Some(ResponseUnknownId)
        /\ \E h \in Handlers :
                /\ handlers[h].pc = "replied"
                /\ handlers[h].id = id
                /\ handlers[h].response = Some(ResponseFailed)

\* C27: the expiry task of a session is started by its creation and stays
\* as it is through every webhook, chart request and viewer connection: only
\* its own firing changes it. Whenever it is still sleeping and the registry
\* lock is free it can fire, whatever the session holds and whoever watches
\* it. Its firing takes the session out of the registry and starts no email
\* and no viewer send.
C27_TimerStep ==
    /\ \A id \in DOMAIN timers :
            /\ id \in DOMAIN timers'
            /\ timers'[id] # timers[id] =>
                /\ ExpireStep(id)
                /\ lock = None /\ lock' = None
                /\ sessions' = SessionsRemove(sessions, id)
                /\ emails' = emails
                /\ sends' = sends
                /\ handlers' = handlers
                /\ charts' = charts
    /\ \A id \in DOMAIN timers' \ DOMAIN timers :
            /\ timers'[id] = "sleeping"
            /\ id \in DOMAIN sessions' /\ id \notin DOMAIN sessions

C27_ExpiryUnconditional ==
    /\ [][C27_TimerStep]_vars
    /\ [](\A id \in DOMAIN timers :
            (timers[id] = "sleeping" /\ lock = None) => ENABLED Expire(id))
    /\ [](\A id \in DOMAIN sessions : id \in DOMAIN timers /\ timers[id] = "sleeping")

\* A session that had data, a viewer and a chart request answered with an
\* image has expired.
C27_Witness ==
    \E id \in DOMAIN timers :
        /\ timers[id] = "fired"
        /\ id \notin DOMAIN sessions
        /\ EmailsFor(id) = {}
        /\ Len(sockets[id]) > 0
        /\ \E i \in 1..Len(sends) : sends[i].viewer \in {sockets[id][k] : k \in 1..Len(sockets[id])}
        /\ charts.pc = "replied"
        /\ charts.id = id
        /\ charts.response.v.status = "OK"

\* C28 as stated: the sends to one viewer reach its socket in the order in
\* which they were spawned, that is, a send task takes the socket only when
\* no send to the same viewer spawned before it is still waiting for it.
C28_DeliveredInOrder_Step ==
    \A i \in 1..Len(sends) :
        (sends[i].status = "spawned" /\ sends'[i].status = "sending") =>
            \A j \in 1..(i - 1) :
                sends[j].viewer = sends[i].viewer => sends[j].status # "spawned"

C28_DeliveredInOrder == [][C28_DeliveredInOrder_Step]_vars

\* The identity of a session, and the identities found for an id in the
\* registry or in the hands of a webhook handler.
Identity(session) == <<session.id, session.created, session.email_to_notify>>

IdentitiesOf(id) ==
    {Identity(sessions[x]) : x \in DOMAIN sessions \cap {id}}
    \cup {Identity(handlers[h].session.v) :
            h \in {x \in Handlers : handlers[x].session.some /\ handlers[x].id = id}}

\* C29: every session, in the registry or taken out of it by a handler,
\* sits under the key that is its id field and has the address its create
\* was given; its identity (id, creation time, address) is the one its
\* create stored and no step changes it; a step of a webhook handler leaves
\* the entry and the expiry task of every other id as they were; and every
\* email is addressed to the recipient of the session it is about.
C29_IdentityStep ==
    /\ \A id \in SessionIds :
            IF id \in DOMAIN creations
            THEN IdentitiesOf(id)' \subseteq IdentitiesOf(id)
            ELSE IdentitiesOf(id)' \subseteq {<<id, now, email>> : email \in EmailAddresses}
    /\ \A h \in Handlers :
            handlers'[h] # handlers[h] =>
                \A other \in SessionIds \ {handlers'[h].id} :
                    /\ SessionsGet(sessions', other) = SessionsGet(sessions, other)
                    /\ other \in DOMAIN timers => timers'[other] = timers[other]
                    /\ other \in DOMAIN creations => creations'[other] = creations[other]

C29_SessionsIsolated ==
    /\ [][C29_IdentityStep]_vars
    /\ [](\A id \in SessionIds :
            \A identity \in IdentitiesOf(id) :
                /\ identity[1] = id
                /\ identity[3] = creations[id])
    /\ [](\A i \in 1..Len(emails) : emails[i].recipient = creations[emails[i].id])

\* Two sessions for different addresses; the first has been put back after
\* a webhook with data, the second has completed and its email is addressed
\* to its own recipient.
C29_Witness ==
    /\ DOMAIN creations = {1, 2}
    /\ creations[1] # creations[2]
    /\ 1 \in DOMAIN sessions
    /\ sessions[1].state.data = DataOne
    /\ Identity(sessions[1]) = <<1, Epoch, creations[1]>>
    /\ \E i \in 1..Len(emails) :
            emails[i].kind = "notify" /\ emails[i].id = 2
                /\ emails[i].recipient = creations[2]

\* The next step of a webhook handler that holds the registry mutex, when
\* it is not the update.
HolderStep(h) ==
    \/ HandlerRemove(h)
    \/ HandlerUnknown(h)
    \/ HandlerReturn(h)

\* The locks are taken in one order: registry, viewer list, socket. The
\* holder of the registry mutex is a handler in its straight-line section,
\* which can take its next step unless that is the update, whose broadcast
\* asks for the mutex of the viewer list alone; the holder of the mutex of a list
\* can always return; the holder of a socket can always end its write; and
\* whoever waits for a free mutex can take it.
LockOrder ==
    /\ lock.some =>
            /\ lock.v \in Handlers
            /\ handlers[lock.v].pc \in {"locked", "removed", "done"}
            /\ \/ ENABLED HolderStep(lock.v)
               \/ /\ handlers[lock.v].pc = "removed"
                  /\ handlers[lock.v].session.some
    /\ \A id \in pushing : ENABLED PushRelease(id)
    /\ \A i \in 1..Len(sends) :
            /\ sends[i].status = "sending" => ENABLED SocketWrite(i, TRUE)
            /\ sends[i].status = "spawned" =>
                    \/ ENABLED SocketLock(i)
                    \/ \E j \in 1..Len(sends) :
                            sends[j].viewer = sends[i].viewer /\ sends[j].status = "sending"
    /\ lock = None =>
            /\ \A h \in Handlers : handlers[h].pc = "waiting" => ENABLED HandlerLock(h)
            /\ charts.pc = "waiting" => ENABLED (\E plotOk \in BOOLEAN : GraphData(plotOk))
            /\ \A id \in DOMAIN timers : timers[id] = "sleeping" => ENABLED Expire(id)

\* C30: no thread that holds a lock waits for a lock taken earlier in the
\* order registry, viewer list, socket, so no cycle of waiting threads
\* exists; and every webhook handler and chart request that asks for the
\* registry mutex gets it and completes, every registering viewer returns
\* and every send task ends.
C30_DeadlockFree ==
    /\ []LockOrder
    /\ \A h \in Handlers : []<>(~InFlight(h))
    /\ []<>(charts.pc # "waiting")
    /\ []<>(pushing = {})
    /\ []<>(\A i \in 1..Len(sends) : SendEnded(i))

\* After a first webhook, a handler holds the registry mutex and is about to
\* broadcast, a chart request waits for that mutex, a registering
\* viewer holds the mutex of the viewer list, and a send task holds its
\* socket while another waits for it.
C30_Witness ==
    /\ \E h \in Handlers :
            /\ lock = Some(h)
            /\ handlers[h].pc = "removed"
            /\ handlers[h].session.some
            /\ handlers[h].id \in pushing
            /\ \E g \in Handlers \ {h} : handlers[g].pc = "replied"
    /\ charts.pc = "waiting"
    /\ \E i \in 1..Len(sends) : sends[i].status = "sending"

====
